---- MODULE Spec2Model ----
(***************************************************************************)
(* health-bot: the OAuth2 credential lifecycle (auth/flask_server.py), the *)
(* provider clients (clients/*.py) and the aggregation entry point         *)
(* (aggregator/aggregator.py), over the SQLite tables of database/db.py.   *)
(***************************************************************************)
EXTENDS Integers, Sequences, FiniteSets, TLC

\* ------------------------------------------------------------------ bounds
\* How many state tokens get_auth_url may issue in one behaviour.
MaxStates == 2
\* How many seconds the clock may advance in one behaviour.
MaxTicks == 2
MaxDays == 2
\* How many days before today the oldest record a provider holds may be.
MaxAge == 4

\* ------------------------------------------------------- program constants
\* get_valid_token: "Refresh 60 seconds before expiry".
MaxScore == 100
SECONDS_PER_DAY == 86400
REFRESH_MARGIN == 60
\* WhoopClient._today_window: now - timedelta(days=1).
WhoopWindowDays == 1
\* OuraClient.get_activity: fallback_days=2.
ActivityFallbackDays == 2
\* _save_token: token_data.get("expires_in", 3600).
DEFAULT_EXPIRES_IN == 3600
\* int(time.time()) when the process starts (any positive epoch second).
StartTime == 1000

\* --------------------------------------------------------------- universes
Users == {1, 2}
Providers == {"whoop", "oura"}
\* get_auth_url accepts any string; "fitbit" stands for every unknown one.
ProviderArgs == Providers \cup {"fitbit"}
\* secrets.token_urlsafe(16): 128 random bits, modelled as a draw that never
\* repeats a value drawn before (the values are numbered in the order drawn).
States == 1..MaxStates
\* request.args.get("state", "") of a request without a state parameter.
NoStateParam == 0
\* A state value that get_auth_url never issued (a forged or mistyped one).
ForgedState == MaxStates + 1
\* SQL NULL / Python None in a text column.
None == "None"
\* Lifetimes (seconds) a provider may report in "expires_in".
ExpiresInValues == {61}

\* What a provider's token endpoint may answer to a code exchange or a
\* refresh: an HTTP error (raise_for_status raises), or a JSON body that may
\* lack "access_token", "refresh_token" or "expires_in".
TokenResponses ==
    {[status |-> "error", has_access_token |-> FALSE, has_refresh_token |-> FALSE,
      has_expires_in |-> FALSE, expires_in |-> 0],
     [status |-> "ok", has_access_token |-> FALSE, has_refresh_token |-> FALSE,
      has_expires_in |-> FALSE, expires_in |-> 0]}
    \cup
    {[status |-> "ok", has_access_token |-> TRUE, has_refresh_token |-> r,
      has_expires_in |-> TRUE, expires_in |-> e] :
        r \in BOOLEAN, e \in ExpiresInValues}
    \cup
    {[status |-> "ok", has_access_token |-> TRUE, has_refresh_token |-> r,
      has_expires_in |-> FALSE, expires_in |-> 0] : r \in BOOLEAN}

\* ret.resp when the operation received no token response.
NoResponse ==
    [status |-> "none", has_access_token |-> FALSE, has_refresh_token |-> FALSE,
     has_expires_in |-> FALSE, expires_in |-> 0]

VARIABLES
    oauth_states,   \* table oauth_states: state -> [provider, chat_id]
    oauth_tokens,   \* table oauth_tokens: <<chat_id, provider>> -> row
    now,            \* int(time.time())
    issued,         \* history: every state get_auth_url stored, with its binding
    consumed,       \* history: the states a _pop_state has found and deleted
    ret,            \* what the last operation was given and what it answered
    whoop_metrics,  \* table whoop_metrics: the set of its rows
    oura_metrics,   \* table oura_metrics: the set of its rows
    daily_scores,   \* table daily_scores: the set of its rows
    agg,            \* the last aggregate() call: what it fetched and answered
    whoop_run,      \* a WhoopClient(chat_id).get_all() call: where it is, what it has
    fetched,        \* outcomes of the two get_all calls for aggregate to work on
    callbacks,      \* the callback requests the Flask threads are serving
    token_calls,    \* the get_valid_token calls in progress, one per calling thread
    revoked,        \* provider side: the refresh tokens already used for a refresh
    lookup,         \* the last _latest / _fetch_today call: what it asked and got
    agg_run,        \* an aggregate() call, statement by statement
    users,          \* table users: the registered chat_ids
    job             \* a scheduled broadcast job, user by user

vars == <<oauth_states, oauth_tokens, now, issued, consumed, ret,
          whoop_metrics, oura_metrics, daily_scores, agg, whoop_run, fetched,
          callbacks, token_calls, revoked, lookup, agg_run, users, job>>

\* The requests, calls and jobs in progress, and what they work on.
procvars == <<callbacks, token_calls, revoked, lookup, agg_run, users, job>>

\* The metrics tables and the aggregation outcome, which the credential
\* operations never touch.
aggvars == <<whoop_metrics, oura_metrics, daily_scores, agg, whoop_run, fetched, procvars>>

\* The uniform shape of ret: the operation, its arguments (state, chat_id,
\* provider; 0 or "" when it has none), its answer, whether it sent a code
\* exchange, how far a refresh went ("not_called", "no_refresh_token",
\* "failed", "ok"), whether it wrote a token row, and the token response used.
Ret(op, state, chat_id, provider, result, exchanged, refresh, wrote, resp) ==
    [op |-> op, state |-> state, chat_id |-> chat_id, provider |-> provider,
     result |-> result, exchanged |-> exchanged, refresh |-> refresh,
     wrote |-> wrote, resp |-> resp]

\* ----------------------------------------------------- auth/flask_server.py

\* The access token a provider issues: one that differs from the stored one.
NewAccessToken(tokens, key) ==
    IF key \in DOMAIN tokens /\ tokens[key].access_token = "a1" THEN "a2" ELSE "a1"

\* The refresh token a provider issues when it rotates: a new one.
NewRefreshToken(tokens, key) ==
    IF key \in DOMAIN tokens /\ tokens[key].refresh_token = "r1" THEN "r2" ELSE "r1"

\* resp.json() of a successful token response, as the dict _save_token reads.
TokenData(tokens, key, resp) ==
    [access_token |-> NewAccessToken(tokens, key),
     refresh_token |-> IF resp.has_refresh_token THEN NewRefreshToken(tokens, key) ELSE None,
     has_expires_in |-> resp.has_expires_in,
     expires_in |-> resp.expires_in]

SaveState_ReplacesPending(states, state, provider, chat_id) ==
    [s \in {x \in DOMAIN states :
               states[x] # [provider |-> provider, chat_id |-> chat_id]} \cup {state} |->
        IF s = state THEN [provider |-> provider, chat_id |-> chat_id] ELSE states[s]]

\* _save_state: INSERT INTO oauth_states.
SaveState(states, state, provider, chat_id) ==
    [s \in DOMAIN states \cup {state} |->
        IF s = state THEN [provider |-> provider, chat_id |-> chat_id] ELSE states[s]]

\* _pop_state: whether the SELECT finds a row for `state`.
PopStateFound(states, state) == state \in DOMAIN states

PopStateTable_KeepsRow(states, state) == states

\* _pop_state: the table after its DELETE.
PopStateTable(states, state) ==
    [s \in DOMAIN states \ {state} |-> states[s]]

ExpiresIn_IgnoresReport(token_data) == DEFAULT_EXPIRES_IN

\* token_data.get("expires_in", 3600)
ExpiresIn(token_data) ==
    IF token_data.has_expires_in THEN token_data.expires_in ELSE DEFAULT_EXPIRES_IN

\* _save_token: the upsert of (chat_id, provider); every column is replaced by
\* the excluded (new) value, refresh_token included.
SaveToken(tokens, t, chat_id, provider, token_data) ==
    LET key == <<chat_id, provider>>
        row == [access_token  |-> token_data.access_token,
                refresh_token |-> token_data.refresh_token,
                expires_at    |-> t + ExpiresIn(token_data)]
    IN [k \in DOMAIN tokens \cup {key} |-> IF k = key THEN row ELSE tokens[k]]

\* secrets.token_urlsafe(16): the next value never drawn before.
FreshState(drawn) == Cardinality(DOMAIN drawn) + 1

\* The requests Flask serves at once: app.run serves each request on a thread
\* of its own.
Requests == {1, 2}

\* A thread that serves no callback.
NoCallback ==
    [pc |-> "idle", route |-> "", state |-> 0, row |-> << >>, exchanged |-> FALSE]

\* The threads that may be inside get_valid_token at once (the bot's, the
\* scheduler's, Flask's).
Callers == {1, 2}

\* A thread that is not inside get_valid_token.
NoTokenCall ==
    [pc |-> "idle", chat_id |-> 0, provider |-> "", sent |-> None,
     token_data |-> << >>, result |-> None, refresh |-> "not_called"]

\* No _latest or _fetch_today call has been made.
NoLookup ==
    [client |-> "", endpoint |-> "", held |-> {}, failed |-> FALSE, result |-> << >>]

\* No aggregate() call made statement by statement.
NoRun ==
    [pc |-> "idle", whoop |-> [k \in {} |-> << >>], oura |-> [k \in {} |-> << >>],
     errors |-> << >>, composite |-> << >>, training |-> << >>,
     raised |-> "none", steps |-> << >>]

\* No scheduled job has run.
NoJob ==
    [pc |-> "idle", kind |-> "", registered |-> {}, todo |-> << >>,
     processed |-> << >>, sent |-> {}, failed |-> {}]

\* No request or call is in progress.
InitProc ==
    /\ callbacks = [r \in Requests |-> NoCallback]
    /\ token_calls = [c \in Callers |-> NoTokenCall]
    /\ revoked = {}
    /\ lookup = NoLookup
    /\ agg_run = NoRun
    /\ users = {}
    /\ job = NoJob

\* get_auth_url: the state is stored first; an unknown provider raises
\* ValueError after that.
get_auth_url(chat_id, provider) ==
    \E state \in {FreshState(issued)} \cap States :
        /\ oauth_states' = SaveState(oauth_states, state, provider, chat_id)
        /\ issued' = SaveState(issued, state, provider, chat_id)
        /\ ret' = Ret("get_auth_url", state, chat_id, provider,
                      IF provider \in Providers THEN "url" ELSE "ValueError",
                      FALSE, "not_called", FALSE, NoResponse)
        /\ UNCHANGED <<oauth_tokens, now, consumed>>
        /\ UNCHANGED aggvars

\* The name of the handler of /callback/<route>.
CallbackOp(route) == IF route = "whoop" THEN "whoop_callback" ELSE "oura_callback"

StateAccepted_AnyProvider(states, state, route) == PopStateFound(states, state)

\* Whether a callback on `route` accepts what _pop_state returned:
\* not (result is None or result[0] != route).
StateAccepted(states, state, route) ==
    PopStateFound(states, state) /\ states[state].provider = route

InvalidState_AfterExchange(route, state) ==
    /\ ret' = Ret(CallbackOp(route), state, 0, route, "invalid_state",
                  TRUE, "not_called", FALSE, NoResponse)
    /\ UNCHANGED oauth_tokens

\* return "<h2>Invalid state</h2>", 400: before any _exchange_code.
InvalidState(route, state) ==
    /\ ret' = Ret(CallbackOp(route), state, 0, route, "invalid_state",
                  FALSE, "not_called", FALSE, NoResponse)
    /\ UNCHANGED oauth_tokens

\* The try block of a callback: _exchange_code, then _save_token; any
\* exception (raise_for_status, KeyError on "access_token") is answered 500.
\* The `code` parameter is sent as received and decides nothing here: the
\* provider's answer is the choice of resp.
ExchangeAndSave(route, state, chat_id) ==
    \E resp \in TokenResponses :
        IF resp.status = "ok" /\ resp.has_access_token
        THEN /\ oauth_tokens' = SaveToken(oauth_tokens, now, chat_id, route,
                                  TokenData(oauth_tokens, <<chat_id, route>>, resp))
             /\ ret' = Ret(CallbackOp(route), state, chat_id, route, "connected",
                           TRUE, "not_called", TRUE, resp)
        ELSE /\ UNCHANGED oauth_tokens
             /\ ret' = Ret(CallbackOp(route), state, chat_id, route, "error",
                           TRUE, "not_called", FALSE, resp)

callback_PopsBeforeError(route, state, has_error) ==
    /\ UNCHANGED aggvars
    /\ oauth_states' = IF PopStateFound(oauth_states, state)
                       THEN PopStateTable(oauth_states, state) ELSE oauth_states
    /\ consumed' = IF PopStateFound(oauth_states, state)
                   THEN consumed \cup {state} ELSE consumed
    /\ UNCHANGED <<now, issued>>
    /\ IF has_error
       THEN /\ ret' = Ret(CallbackOp(route), state, 0, route, "oauth_error",
                          FALSE, "not_called", FALSE, NoResponse)
            /\ UNCHANGED oauth_tokens
       ELSE IF ~StateAccepted(oauth_states, state, route)
            THEN InvalidState(route, state)
            ELSE ExchangeAndSave(route, state, oauth_states[state].chat_id)

\* whoop_callback / oura_callback: the two handlers differ only in the
\* provider name (`route`).
callback(route, state, has_error) ==
    /\ UNCHANGED aggvars
    /\ IF has_error
       THEN /\ ret' = Ret(CallbackOp(route), state, 0, route, "oauth_error",
                          FALSE, "not_called", FALSE, NoResponse)
            /\ UNCHANGED <<oauth_states, oauth_tokens, now, issued, consumed>>
       ELSE
         /\ oauth_states' = IF PopStateFound(oauth_states, state)
                            THEN PopStateTable(oauth_states, state) ELSE oauth_states
         /\ consumed' = IF PopStateFound(oauth_states, state)
                        THEN consumed \cup {state} ELSE consumed
         /\ UNCHANGED <<now, issued>>
         /\ IF ~StateAccepted(oauth_states, state, route)
            THEN InvalidState(route, state)
            ELSE ExchangeAndSave(route, state, oauth_states[state].chat_id)

\* A callback request without an error parameter arrives on thread r.
callback_start(r, route, state) ==
    /\ callbacks[r].pc \in {"idle", "done"}
    /\ callbacks' = [callbacks EXCEPT ![r] =
            [pc |-> "select", route |-> route, state |-> state, row |-> << >>,
             exchanged |-> FALSE]]
    /\ ret' = Ret("callback_start", state, 0, route, "", FALSE, "not_called",
                  FALSE, NoResponse)
    /\ UNCHANGED <<oauth_states, oauth_tokens, now, issued, consumed>>
    /\ UNCHANGED <<whoop_metrics, oura_metrics, daily_scores, agg, whoop_run, fetched>>
    /\ UNCHANGED <<token_calls, revoked, lookup, agg_run, users, job>>

\* _pop_state, first statement: SELECT provider, chat_id ... WHERE state = ?
\* on the thread's own connection; no row returns None and the handler
\* answers "Invalid state".
pop_state_select(r) ==
    LET c == callbacks[r]
        found == PopStateFound(oauth_states, c.state) IN
    /\ c.pc = "select"
    /\ callbacks' = [callbacks EXCEPT ![r] =
            [c EXCEPT !.pc = IF found THEN "delete" ELSE "done",
                      !.row = IF found THEN <<oauth_states[c.state]>> ELSE << >>]]
    /\ ret' = Ret(CallbackOp(c.route), c.state, 0, c.route,
                  IF found THEN "selected" ELSE "invalid_state",
                  FALSE, "not_called", FALSE, NoResponse)
    /\ UNCHANGED <<oauth_states, oauth_tokens, now, issued, consumed>>
    /\ UNCHANGED <<whoop_metrics, oura_metrics, daily_scores, agg, whoop_run, fetched>>
    /\ UNCHANGED <<token_calls, revoked, lookup, agg_run, users, job>>

\* _pop_state, second statement: `if row: DELETE ... WHERE state = ?`, whose
\* row count is not looked at, then the return of the row selected; the
\* handler answers "Invalid state" for a row of the other provider.
pop_state_delete(r) ==
    LET c == callbacks[r]
        accepted == c.row[1].provider = c.route IN
    /\ c.pc = "delete"
    /\ oauth_states' = IF PopStateFound(oauth_states, c.state)
                       THEN PopStateTable(oauth_states, c.state) ELSE oauth_states
    /\ consumed' = consumed \cup {c.state}
    /\ callbacks' = [callbacks EXCEPT ![r] =
            [c EXCEPT !.pc = IF accepted THEN "exchange" ELSE "done"]]
    /\ ret' = Ret(CallbackOp(c.route), c.state, c.row[1].chat_id, c.route,
                  IF accepted THEN "popped" ELSE "invalid_state",
                  FALSE, "not_called", FALSE, NoResponse)
    /\ UNCHANGED <<oauth_tokens, now, issued>>
    /\ UNCHANGED <<whoop_metrics, oura_metrics, daily_scores, agg, whoop_run, fetched>>
    /\ UNCHANGED <<token_calls, revoked, lookup, agg_run, users, job>>

\* The try block of the handler on thread r, for the row its _pop_state
\* returned.
callback_exchange(r) ==
    LET c == callbacks[r] IN
    /\ c.pc = "exchange"
    /\ ExchangeAndSave(c.route, c.state, c.row[1].chat_id)
    /\ callbacks' = [callbacks EXCEPT ![r] =
            [c EXCEPT !.pc = "done", !.exchanged = TRUE]]
    /\ UNCHANGED <<oauth_states, now, issued, consumed>>
    /\ UNCHANGED <<whoop_metrics, oura_metrics, daily_scores, agg, whoop_run, fetched>>
    /\ UNCHANGED <<token_calls, revoked, lookup, agg_run, users, job>>

\* The state values a request may carry: an issued one, none, a forged one.
StateParams == DOMAIN issued \cup {NoStateParam, ForgedState}

whoop_callback ==
    \E state \in StateParams, has_error \in BOOLEAN : callback("whoop", state, has_error)

oura_callback ==
    \E state \in StateParams, has_error \in BOOLEAN : callback("oura", state, has_error)

refresh_token_DropsRowOnFailure(tokens, t, chat_id, provider, resp) ==
    LET key == <<chat_id, provider>> IN
    IF key \notin DOMAIN tokens \/ tokens[key].refresh_token = None
    THEN [result |-> None, refresh |-> "no_refresh_token", tokens |-> tokens]
    ELSE IF resp.status = "ok" /\ resp.has_access_token
         THEN [result |-> NewAccessToken(tokens, key), refresh |-> "ok",
               tokens |-> SaveToken(tokens, t, chat_id, provider,
                                    TokenData(tokens, key, resp))]
         ELSE [result |-> None, refresh |-> "failed",
               tokens |-> [k \in DOMAIN tokens \ {key} |-> tokens[k]]]

\* refresh_token: [result, refresh, tokens] for the provider's answer `resp`.
\* No refresh token on file returns None before any request; an exception
\* (raise_for_status, KeyError on "access_token") is caught and returns None.
refresh_token(tokens, t, chat_id, provider, resp) ==
    LET key == <<chat_id, provider>> IN
    IF key \notin DOMAIN tokens \/ tokens[key].refresh_token = None
    THEN [result |-> None, refresh |-> "no_refresh_token", tokens |-> tokens]
    ELSE IF resp.status = "ok" /\ resp.has_access_token
         THEN [result |-> NewAccessToken(tokens, key), refresh |-> "ok",
               tokens |-> SaveToken(tokens, t, chat_id, provider,
                                    TokenData(tokens, key, resp))]
         ELSE [result |-> None, refresh |-> "failed", tokens |-> tokens]

NeedsRefresh_Strict(row, t) ==
    row.expires_at # 0 /\ t > row.expires_at - REFRESH_MARGIN

\* row["expires_at"] and int(time.time()) >= row["expires_at"] - 60
NeedsRefresh(row, t) ==
    row.expires_at # 0 /\ t >= row.expires_at - REFRESH_MARGIN

GetValidToken_StaleOnFailure(tokens, t, chat_id, provider, resp) ==
    LET key == <<chat_id, provider>> IN
    IF key \notin DOMAIN tokens
    THEN [result |-> None, refresh |-> "not_called", tokens |-> tokens]
    ELSE IF NeedsRefresh(tokens[key], t)
         THEN LET r == refresh_token(tokens, t, chat_id, provider, resp)
              IN IF r.result = None
                 THEN [r EXCEPT !.result = tokens[key].access_token]
                 ELSE r
         ELSE [result |-> tokens[key].access_token, refresh |-> "not_called",
               tokens |-> tokens]

\* get_valid_token, for the provider's answer `resp` to the refresh request
\* it may send: [result, refresh, tokens].
GetValidToken(tokens, t, chat_id, provider, resp) ==
    LET key == <<chat_id, provider>> IN
    IF key \notin DOMAIN tokens
    THEN [result |-> None, refresh |-> "not_called", tokens |-> tokens]
    ELSE IF NeedsRefresh(tokens[key], t)
         THEN refresh_token(tokens, t, chat_id, provider, resp)
         ELSE [result |-> tokens[key].access_token, refresh |-> "not_called",
               tokens |-> tokens]

\* The answers a get_valid_token call can receive from the token endpoint:
\* any answer when it sends a refresh request, none when it sends no request.
RefreshResponses(tokens, t, chat_id, provider) ==
    LET key == <<chat_id, provider>> IN
    IF /\ key \in DOMAIN tokens
       /\ NeedsRefresh(tokens[key], t)
       /\ tokens[key].refresh_token # None
    THEN TokenResponses
    ELSE {NoResponse}

\* get_valid_token
get_valid_token(chat_id, provider) ==
    \E resp \in RefreshResponses(oauth_tokens, now, chat_id, provider) :
        LET r == GetValidToken(oauth_tokens, now, chat_id, provider, resp) IN
        /\ oauth_tokens' = r.tokens
        /\ ret' = Ret("get_valid_token", 0, chat_id, provider, r.result,
                      FALSE, r.refresh, r.refresh = "ok", resp)
        /\ UNCHANGED <<oauth_states, now, issued, consumed>>
        /\ UNCHANGED aggvars

\* A thread calls get_valid_token(chat_id, provider).
token_call_start(c, chat_id, provider) ==
    /\ token_calls[c].pc \in {"idle", "done"}
    /\ token_calls' = [token_calls EXCEPT ![c] =
            [NoTokenCall EXCEPT !.pc = "read", !.chat_id = chat_id,
                                !.provider = provider]]
    /\ ret' = Ret("token_call_start", 0, chat_id, provider, "", FALSE,
                  "not_called", FALSE, NoResponse)
    /\ UNCHANGED <<oauth_states, oauth_tokens, now, issued, consumed>>
    /\ UNCHANGED <<whoop_metrics, oura_metrics, daily_scores, agg, whoop_run, fetched>>
    /\ UNCHANGED <<callbacks, revoked, lookup, agg_run, users, job>>

\* get_valid_token on thread c: SELECT access_token, expires_at, then the
\* return of None, of the stored access token, or the call of refresh_token.
token_call_read(c) ==
    LET t == token_calls[c]
        key == <<t.chat_id, t.provider>>
        refreshes == key \in DOMAIN oauth_tokens /\ NeedsRefresh(oauth_tokens[key], now)
        result == IF key \in DOMAIN oauth_tokens
                  THEN oauth_tokens[key].access_token ELSE None IN
    /\ t.pc = "read"
    /\ token_calls' = [token_calls EXCEPT ![c] =
            IF refreshes THEN [t EXCEPT !.pc = "refresh_read"]
            ELSE [t EXCEPT !.pc = "done", !.result = result]]
    /\ ret' = Ret("get_valid_token", 0, t.chat_id, t.provider,
                  IF refreshes THEN "" ELSE result, FALSE, "not_called", FALSE,
                  NoResponse)
    /\ UNCHANGED <<oauth_states, oauth_tokens, now, issued, consumed>>
    /\ UNCHANGED <<whoop_metrics, oura_metrics, daily_scores, agg, whoop_run, fetched>>
    /\ UNCHANGED <<callbacks, revoked, lookup, agg_run, users, job>>

\* refresh_token on thread c: SELECT refresh_token; no row or no refresh
\* token returns None before any request.
refresh_token_read(c) ==
    LET t == token_calls[c]
        key == <<t.chat_id, t.provider>>
        stored == IF key \in DOMAIN oauth_tokens
                  THEN oauth_tokens[key].refresh_token ELSE None IN
    /\ t.pc = "refresh_read"
    /\ token_calls' = [token_calls EXCEPT ![c] =
            IF stored = None
            THEN [t EXCEPT !.pc = "done", !.refresh = "no_refresh_token"]
            ELSE [t EXCEPT !.pc = "post", !.sent = stored]]
    /\ ret' = Ret("refresh_token", 0, t.chat_id, t.provider, "", FALSE,
                  IF stored = None THEN "no_refresh_token" ELSE "not_called",
                  FALSE, NoResponse)
    /\ UNCHANGED <<oauth_states, oauth_tokens, now, issued, consumed>>
    /\ UNCHANGED <<whoop_metrics, oura_metrics, daily_scores, agg, whoop_run, fetched>>
    /\ UNCHANGED <<callbacks, revoked, lookup, agg_run, users, job>>

\* raise_for_status raises: the answer of a token endpoint that refuses.
RefusedResponse ==
    [status |-> "error", has_access_token |-> FALSE, has_refresh_token |-> FALSE,
     has_expires_in |-> FALSE, expires_in |-> 0]

RefreshAnswers_ReusableToken(used, sent) == TokenResponses

\* What a provider that invalidates a refresh token after one use answers to
\* a refresh request carrying `sent`.
RefreshAnswers(used, sent) ==
    IF sent \in used THEN {RefusedResponse} ELSE TokenResponses

\* refresh_token on thread c: requests.post with the refresh token read,
\* raise_for_status and resp.json(). The provider that grants the refresh
\* invalidates the token sent; it never reissues a token it has invalidated.
refresh_token_post(c) ==
    LET t == token_calls[c]
        key == <<t.chat_id, t.provider>> IN
    /\ t.pc = "post"
    /\ \E resp \in RefreshAnswers(revoked, t.sent) :
        LET granted == resp.status = "ok" /\ resp.has_access_token
            token_data == TokenData(oauth_tokens, key, resp) IN
        /\ granted => token_data.refresh_token \notin revoked \cup {t.sent}
        /\ revoked' = IF granted THEN revoked \cup {t.sent} ELSE revoked
        /\ token_calls' = [token_calls EXCEPT ![c] =
                IF granted
                THEN [t EXCEPT !.pc = "save", !.token_data = <<token_data>>]
                ELSE [t EXCEPT !.pc = "done", !.refresh = "failed"]]
        /\ ret' = Ret("refresh_token", 0, t.chat_id, t.provider, "", FALSE,
                      IF granted THEN "ok" ELSE "failed", FALSE, resp)
    /\ UNCHANGED <<oauth_states, oauth_tokens, now, issued, consumed>>
    /\ UNCHANGED <<whoop_metrics, oura_metrics, daily_scores, agg, whoop_run, fetched>>
    /\ UNCHANGED <<callbacks, lookup, agg_run, users, job>>

\* refresh_token on thread c: _save_token(chat_id, provider, token_data) and
\* the return of token_data["access_token"].
refresh_token_save(c) ==
    LET t == token_calls[c] IN
    /\ t.pc = "save"
    /\ oauth_tokens' = SaveToken(oauth_tokens, now, t.chat_id, t.provider,
                                 t.token_data[1])
    /\ token_calls' = [token_calls EXCEPT ![c] =
            [t EXCEPT !.pc = "done", !.refresh = "ok",
                      !.result = t.token_data[1].access_token]]
    /\ ret' = Ret("get_valid_token", 0, t.chat_id, t.provider,
                  t.token_data[1].access_token, FALSE, "ok", TRUE, NoResponse)
    /\ UNCHANGED <<oauth_states, now, issued, consumed>>
    /\ UNCHANGED <<whoop_metrics, oura_metrics, daily_scores, agg, whoop_run, fetched>>
    /\ UNCHANGED <<callbacks, revoked, lookup, agg_run, users, job>>

\* One second passes.
Tick ==
    /\ now < StartTime + MaxTicks
    /\ now' = now + 1
    /\ ret' = Ret("tick", 0, 0, "", "", FALSE, "not_called", FALSE, NoResponse)
    /\ UNCHANGED <<oauth_states, oauth_tokens, issued, consumed>>
    /\ UNCHANGED aggvars

\* ------------------------------------------------------------ python values

\* An optional value: << >> is None, <<v>> is the value v.
Absent == << >>

Some(v) == <<v>>

\* A dict is a function from its keys; {} is the function of no key.
EmptyDict == [k \in {} |-> Absent]

\* `not d` for a dict d.
IsEmptyDict(d) == DOMAIN d = {}

\* d.get(key): None when the key is missing.
Get(d, key) == IF key \in DOMAIN d THEN d[key] ELSE Absent

\* `x or {}` for a sub-endpoint result x that is a dict or None.
OrEmpty(x) == IF x = Absent THEN EmptyDict ELSE x[1]

\* The keys of a normalized record that aggregate skips: k.startswith("_").
MetadataKeys == {"_raw"}

\* all(v is None for k, v in record.items() if not k.startswith("_"))
AllNone(record) == \A k \in DOMAIN record \ MetadataKeys : record[k] = Absent

\* round(n / d, 1) in tenths, for n >= 0 and d > 0 (ties to even).
RoundTenths(n, d) ==
    LET q == (10 * n) \div d
        r == (10 * n) % d
    IN IF 2 * r > d \/ (2 * r = d /\ q % 2 = 1) THEN q + 1 ELSE q

\* ---------------------------------------------------- clients/oura_client.py

\* OuraClient._headers: get_valid_token("oura") passes one argument to
\* get_valid_token(chat_id, provider); the call raises TypeError before the
\* token store is read, whatever it holds.
OuraHeaders == [raised |-> "TypeError"]

\* A provider's answer to one GET: its status and the records of its body.
NoHttpResponse == [status |-> 0, records |-> << >>]

\* _get of either client: the headers are built first (and may raise); 401
\* raises the client's AuthError, another error status raises HTTPError.
ClientGet(headers, http) ==
    IF headers.raised # "none" THEN [raised |-> headers.raised, records |-> << >>]
    ELSE IF http.status = 401 THEN [raised |-> "AuthError", records |-> << >>]
    ELSE IF http.status >= 400 THEN [raised |-> "HTTPError", records |-> << >>]
    ELSE [raised |-> "none", records |-> http.records]

\* OuraClient._fetch_today: today's first item; with fallback_days > 0 the
\* last item of the widened window; None on any exception.
OuraFetchToday(first, second, fallback_days) ==
    IF first.raised # "none" THEN Absent
    ELSE IF first.records # << >> THEN Some(first.records[1])
    ELSE IF fallback_days > 0
         THEN IF second.raised # "none" THEN Absent
              ELSE IF second.records # << >>
                   THEN Some(second.records[Len(second.records)])
                   ELSE Absent
         ELSE Absent

\* Seconds to hours: round(x / 3600, 1), in tenths of an hour.
SecondsToHours(x) == IF x = Absent THEN Absent ELSE Some(RoundTenths(x[1], 3600))

\* OuraClient.get_all: the normalized record of the five sub-endpoint results.
OuraNormalize(readiness, sleep, activity, stress, spo2) ==
    LET spo2_pct == OrEmpty(Get(spo2, "spo2_percentage")) IN
    [readiness_score             |-> Get(readiness, "score"),
     readiness_contributors      |-> Get(readiness, "contributors"),
     readiness_level             |-> Get(readiness, "level"),
     sleep_score                 |-> Get(sleep, "score"),
     sleep_contributors          |-> Get(sleep, "contributors"),
     activity_score              |-> Get(activity, "score"),
     activity_contributors       |-> Get(activity, "contributors"),
     steps                       |-> Get(activity, "steps"),
     active_calories             |-> Get(activity, "active_calories"),
     stress_high                 |-> SecondsToHours(Get(stress, "stress_high")),
     recovery_high               |-> SecondsToHours(Get(stress, "recovery_high")),
     day_summary                 |-> Get(stress, "day_summary"),
     temperature_deviation       |-> Get(readiness, "temperature_deviation"),
     temperature_trend_deviation |-> Get(readiness, "temperature_trend_deviation"),
     spo2_avg                    |-> Get(spo2_pct, "average"),
     _raw                        |-> Some("raw")]

\* OuraClient().get_all() as aggregate calls it: each of the five
\* _fetch_today calls builds its headers, which raises (OuraHeaders); the
\* exception is caught inside _fetch_today, so no request is sent, every
\* sub-result is None and get_all returns the all-None record without raising.
\* answered counts the sub-endpoints that were answered by the provider.
OuraGetAll ==
    LET get == ClientGet(OuraHeaders, NoHttpResponse)
        readiness == OuraFetchToday(get, get, 0)
        sleep == OuraFetchToday(get, get, 0)
        activity == OuraFetchToday(get, get, 2)
        stress == OuraFetchToday(get, get, 0)
        spo2 == OuraFetchToday(get, get, 0)
    IN [raised |-> "none",
        record |-> OuraNormalize(OrEmpty(readiness), OrEmpty(sleep), OrEmpty(activity),
                                 OrEmpty(stress), OrEmpty(spo2)),
        answered |-> IF get.raised = "none" THEN 5 ELSE 0,
        no_token |-> get.raised # "none",
        got_401 |-> FALSE]

\* ---------------------------------------------------- clients/whoop_client.py

\* What a Whoop endpoint may hold for the user: a scored recovery, a scored
\* sleep, a scored workout. Percentages
\* are in tenths, durations in milliseconds.
WhoopRecords(endpoint) ==
    IF endpoint = "/recovery"
    THEN {[score |-> Some([recovery_score |-> Some(70), hrv_rmssd_milli |-> Some(45),
                           resting_heart_rate |-> Some(51), spo2_percentage |-> Some(970),
                           skin_temp_celsius |-> Some(33)])]}
    ELSE IF endpoint = "/activity/sleep"
    THEN {[score |-> Some(
            [stage_summary |-> Some([total_light_sleep_time_milli |-> Some(12000000),
                                     total_slow_wave_sleep_time_milli |-> Some(5400000),
                                     total_rem_sleep_time_milli |-> Some(6000000),
                                     total_awake_time_milli |-> Some(1800000),
                                     disturbance_count |-> Some(8),
                                     sleep_cycle_count |-> Some(4)]),
             sleep_efficiency_percentage |-> Some(910),
             sleep_performance_percentage |-> Some(930),
             sleep_consistency_percentage |-> Some(800),
             respiratory_rate |-> Some(150),
             sleep_needed |-> Some([baseline_milli |-> Some(27000000),
                                    need_from_sleep_debt_milli |-> Some(0),
                                    need_from_recent_strain_milli |-> Some(600000)])])]}
    ELSE {[score |-> Some([strain |-> Some(44)])]}

\* The answers of the Whoop API to one GET on `endpoint`: 401, a server
\* error, no record, one record.
WhoopHttp(endpoint) ==
    {[status |-> 401, records |-> << >>],
     [status |-> 500, records |-> << >>],
     [status |-> 200, records |-> << >>]}
    \cup {[status |-> 200, records |-> <<r>>] : r \in WhoopRecords(endpoint)}

\* WhoopClient._headers: WhoopAuthError when get_valid_token gave no token.
WhoopHeaders(token) ==
    IF token = None THEN [raised |-> "AuthError"] ELSE [raised |-> "none"]

\* `x or 0` for an optional number.
OrZero(x) == IF x = Absent THEN 0 ELSE x[1]

\* round(ms / 60000, 1) or None, in tenths of a minute.
MilliToMinutes(ms) ==
    IF RoundTenths(ms, 60000) = 0 THEN Absent ELSE Some(RoundTenths(ms, 60000))

\* WhoopClient.get_all, after the three sub-endpoint calls: the normalized
\* record of their results (each a dict, {} for None).
WhoopNormalize(recovery, sleep, workout) ==
    LET score == OrEmpty(Get(recovery, "score"))
        sleep_score == OrEmpty(Get(sleep, "score"))
        stage == OrEmpty(Get(sleep_score, "stage_summary"))
        light == OrZero(Get(stage, "total_light_sleep_time_milli"))
        deep == OrZero(Get(stage, "total_slow_wave_sleep_time_milli"))
        rem == OrZero(Get(stage, "total_rem_sleep_time_milli"))
        awake == OrZero(Get(stage, "total_awake_time_milli"))
        total_sleep_milli == light + deep + rem
        sleep_need == OrEmpty(Get(sleep_score, "sleep_needed"))
        need_total_milli == OrZero(Get(sleep_need, "baseline_milli"))
                            + OrZero(Get(sleep_need, "need_from_sleep_debt_milli"))
                            + OrZero(Get(sleep_need, "need_from_recent_strain_milli"))
        workout_score == OrEmpty(Get(workout, "score"))
    IN [recovery_score     |-> Get(score, "recovery_score"),
        hrv_rmssd          |-> Get(score, "hrv_rmssd_milli"),
        rhr                |-> Get(score, "resting_heart_rate"),
        spo2               |-> Get(score, "spo2_percentage"),
        skin_temp_c        |-> Get(score, "skin_temp_celsius"),
        sleep_duration_min |-> IF total_sleep_milli # 0
                               THEN Some(RoundTenths(total_sleep_milli, 60000))
                               ELSE Absent,
        sleep_efficiency   |-> Get(sleep_score, "sleep_efficiency_percentage"),
        sleep_performance  |-> Get(sleep_score, "sleep_performance_percentage"),
        sleep_consistency  |-> Get(sleep_score, "sleep_consistency_percentage"),
        respiratory_rate   |-> Get(sleep_score, "respiratory_rate"),
        disturbance_count  |-> Get(stage, "disturbance_count"),
        sleep_cycles       |-> Get(stage, "sleep_cycle_count"),
        light_sleep_min    |-> MilliToMinutes(light),
        deep_sleep_min     |-> MilliToMinutes(deep),
        rem_sleep_min      |-> MilliToMinutes(rem),
        awake_min          |-> MilliToMinutes(awake),
        sleep_needed_min   |-> IF need_total_milli # 0
                               THEN Some(RoundTenths(need_total_milli, 60000))
                               ELSE Absent,
        workout_strain     |-> Get(workout_score, "strain"),
        _raw               |-> Some("raw")]

\* whoop_run when no get_all call has been made.
NoWhoopRun ==
    [pc |-> "idle", chat_id |-> 0,
     recovery |-> Absent, sleep |-> Absent, workout |-> Absent,
     no_token |-> FALSE, got_401 |-> FALSE, answered |-> 0,
     raised |-> "none", record |-> EmptyDict]

\* The endpoint the call at `pc` asks.
WhoopEndpoint(pc) ==
    IF pc \in {"recovery", "recovery_latest"} THEN "/recovery"
    ELSE IF pc \in {"sleep", "sleep_latest"} THEN "/activity/sleep"
    ELSE "/activity/workout"

\* Where get_all goes after the call at `pc`: _latest asks again without the
\* window when the windowed answer holds no record; an exception or a record
\* ends the sub-endpoint.
WhoopNextPc(pc, get) ==
    IF pc = "recovery"
    THEN IF get.raised = "none" /\ get.records = << >> THEN "recovery_latest" ELSE "sleep"
    ELSE IF pc = "recovery_latest" THEN "sleep"
    ELSE IF pc = "sleep"
    THEN IF get.raised = "none" /\ get.records = << >> THEN "sleep_latest" ELSE "workout"
    ELSE IF pc = "sleep_latest" THEN "workout"
    ELSE "done"

\* The sub-endpoint result a call leaves: records[0], or None for no record
\* and for any exception (the except Exception of _latest and get_workout
\* catches WhoopAuthError and HTTPError alike).
WhoopSubResult(get) ==
    IF get.raised = "none" /\ get.records # << >> THEN Some(get.records[1]) ELSE Absent

\* WhoopClient(chat_id).get_all() begins: nothing fetched yet. (aggregate
\* never gets here: see WhoopGetAllNoArgs.)
whoop_get_all(chat_id) ==
    /\ whoop_run.pc \in {"idle", "done"}
    /\ whoop_run' = [NoWhoopRun EXCEPT !.pc = "recovery", !.chat_id = chat_id]
    /\ ret' = Ret("whoop_get_all", 0, chat_id, "whoop", "", FALSE, "not_called",
                  FALSE, NoResponse)
    /\ UNCHANGED <<oauth_states, oauth_tokens, now, issued, consumed>>
    /\ UNCHANGED <<whoop_metrics, oura_metrics, daily_scores, agg, fetched, procvars>>

\* One WhoopClient._get of the running get_all: _headers calls
\* get_valid_token (which may refresh and rewrite the token row), then the
\* request is sent and answered; after the last one get_all normalizes and
\* returns.
whoop_get ==
    /\ whoop_run.pc \notin {"idle", "done"}
    /\ \E resp \in RefreshResponses(oauth_tokens, now, whoop_run.chat_id, "whoop") :
        LET tk == GetValidToken(oauth_tokens, now, whoop_run.chat_id, "whoop", resp)
            headers == WhoopHeaders(tk.result)
        IN \E http \in (IF headers.raised = "none"
                        THEN WhoopHttp(WhoopEndpoint(whoop_run.pc))
                        ELSE {NoHttpResponse}) :
            LET get == ClientGet(headers, http)
                pc == WhoopNextPc(whoop_run.pc, get)
                sub == WhoopSubResult(get)
                run == [whoop_run EXCEPT
                          !.pc = pc,
                          !.recovery = IF WhoopEndpoint(whoop_run.pc) = "/recovery"
                                       THEN sub ELSE @,
                          !.sleep = IF WhoopEndpoint(whoop_run.pc) = "/activity/sleep"
                                    THEN sub ELSE @,
                          !.workout = IF WhoopEndpoint(whoop_run.pc) = "/activity/workout"
                                      THEN sub ELSE @,
                          !.no_token = @ \/ headers.raised # "none",
                          !.got_401 = @ \/ http.status = 401,
                          !.answered = IF get.raised = "none" THEN @ + 1 ELSE @]
            IN /\ oauth_tokens' = tk.tokens
               /\ whoop_run' = IF pc = "done"
                               THEN [run EXCEPT !.record =
                                       WhoopNormalize(OrEmpty(run.recovery),
                                                      OrEmpty(run.sleep),
                                                      OrEmpty(run.workout))]
                               ELSE run
               /\ ret' = Ret("whoop_get", 0, whoop_run.chat_id, "whoop", tk.result,
                             FALSE, tk.refresh, tk.refresh = "ok", resp)
    /\ UNCHANGED <<oauth_states, now, issued, consumed>>
    /\ UNCHANGED <<whoop_metrics, oura_metrics, daily_scores, agg, fetched, procvars>>

\* WhoopClient() as aggregate calls it: __init__(self, chat_id) is given no
\* chat_id, so the construction raises TypeError and get_all never runs.
WhoopGetAllNoArgs ==
    [raised |-> "TypeError", record |-> EmptyDict, answered |-> 0,
     no_token |-> FALSE, got_401 |-> FALSE]

\* ------------------------------------------------- aggregator/aggregator.py

\* _safe(value): float(value), None for None.
Safe(value) == value

CompositeRecovery_WhoopFirst(whoop, oura) ==
    LET w_score == Safe(Get(whoop, "recovery_score"))
        o_score == Safe(Get(oura, "readiness_score"))
    IN IF w_score # Absent THEN Some(RoundTenths(w_score[1], 1))
       ELSE IF o_score # Absent THEN Some(RoundTenths(o_score[1], 1))
       ELSE Absent

\* _composite_recovery, in tenths: the scores are whole numbers in 0..100.
CompositeRecovery(whoop, oura) ==
    LET w_score == Safe(Get(whoop, "recovery_score"))
        o_score == Safe(Get(oura, "readiness_score"))
    IN IF w_score # Absent /\ o_score # Absent
       THEN Some(RoundTenths(w_score[1] * 5 + o_score[1] * 5, 10))
       ELSE IF w_score # Absent THEN Some(RoundTenths(w_score[1], 1))
       ELSE IF o_score # Absent THEN Some(RoundTenths(o_score[1], 1))
       ELSE Absent

Min(a, b) == IF a < b THEN a ELSE b

Max(a, b) == IF a < b THEN b ELSE a

Abs(a) == IF a < 0 THEN -a ELSE a

StressPenalty_Uncapped(stress) ==
    IF stress # Absent THEN stress[1] * 125 ELSE 0

\* _training_readiness: the stress penalty min(10.0, stress * 1.25), in
\* thousandths of a point, for stress_high in tenths of an hour; nothing when
\* the metric is None.
StressPenalty(stress) ==
    IF stress # Absent THEN Min(10000, stress[1] * 125) ELSE 0

TempPenalty_Signed(temp_dev) ==
    IF temp_dev # Absent THEN Min(5000, temp_dev[1] * 50) ELSE 0

\* _training_readiness: the temperature penalty min(5.0, abs(temp_dev) * 5),
\* in thousandths, for temperature_deviation in hundredths of a degree.
TempPenalty(temp_dev) ==
    IF temp_dev # Absent THEN Min(5000, Abs(temp_dev[1]) * 50) ELSE 0

Spo2Penalty_Capped(spo2) ==
    IF spo2 # Absent /\ spo2[1] < 950 THEN Min(10000, (950 - spo2[1]) * 200) ELSE 0

\* _training_readiness: the SpO2 penalty (95 - spo2) * 2 below 95, in
\* thousandths, for spo2 in tenths of a percent.
Spo2Penalty(spo2) ==
    IF spo2 # Absent /\ spo2[1] < 950 THEN (950 - spo2[1]) * 200 ELSE 0

\* _training_readiness, in tenths; the working score is kept in thousandths.
\* stress_high is in tenths of an hour, temperature_deviation in hundredths
\* of a degree, spo2 in tenths of a percent.
TrainingReadiness(whoop, oura, composite) ==
    IF composite = Absent THEN Absent
    ELSE LET stress == Safe(Get(oura, "stress_high"))
             temp_dev == Safe(Get(oura, "temperature_deviation"))
             spo2 == Safe(Get(whoop, "spo2"))
             s0 == composite[1] * 100
             s1 == s0 - StressPenalty(stress)
             s2 == s1 - TempPenalty(temp_dev)
             s3 == s2 - Spo2Penalty(spo2)
         IN Some(RoundTenths(Max(0, Min(100000, s3)), 1000))

WhoopHandler_OnlyAuthError(raised) ==
    IF raised = "none" THEN [caught |-> TRUE, errors |-> << >>]
    ELSE IF raised = "AuthError"
         THEN [caught |-> TRUE, errors |-> <<[provider |-> "whoop", prefix |-> "Whoop: "]>>]
         ELSE [caught |-> FALSE, errors |-> << >>]

\* The try/except around WhoopClient().get_all(): WhoopAuthError and every
\* other Exception are caught and turned into one error string.
WhoopHandler(raised) ==
    IF raised = "none" THEN [caught |-> TRUE, errors |-> << >>]
    ELSE IF raised = "AuthError"
         THEN [caught |-> TRUE, errors |-> <<[provider |-> "whoop", prefix |-> "Whoop: "]>>]
         ELSE [caught |-> TRUE, errors |-> <<[provider |-> "whoop", prefix |-> "Whoop error: "]>>]

\* The try/except around OuraClient().get_all().
OuraHandler(raised) ==
    IF raised = "none" THEN [caught |-> TRUE, errors |-> << >>]
    ELSE IF raised = "AuthError"
         THEN [caught |-> TRUE, errors |-> <<[provider |-> "oura", prefix |-> "Oura: "]>>]
         ELSE [caught |-> TRUE, errors |-> <<[provider |-> "oura", prefix |-> "Oura error: "]>>]

\* _save_whoop, _save_oura, _save_daily_scores against the tables init_db
\* creates: each INSERT names no chat_id (NOT NULL) and its ON CONFLICT(date)
\* matches no PRIMARY KEY or UNIQUE constraint of a table whose key is
\* UNIQUE(chat_id, date), so SQLite rejects the statement; db() rolls back and
\* re-raises.
SaveRaises == "OperationalError"

ShouldSave_AnyRecord(record) == ~IsEmptyDict(record)

\* The guard of a snapshot write: the record is not empty and not every
\* field whose name does not start with "_" is None.
ShouldSave(record) == ~IsEmptyDict(record) /\ ~AllNone(record)

\* date.today(), as a day number.
Today == now \div SECONDS_PER_DAY

\* The columns init_db declares UNIQUE for the three tables, and the other
\* key each has (the AUTOINCREMENT id).
UniqueKey == {"chat_id", "date"}

PrimaryKey == {"id"}

\* The conflict target the three INSERT statements name.
ConflictTarget == {"date"}

\* The parameters of _save_whoop's INSERT: no chat_id among the columns.
WhoopRow(today, w) ==
    [date               |-> today,
     recovery_score     |-> Safe(Get(w, "recovery_score")),
     hrv_rmssd          |-> Safe(Get(w, "hrv_rmssd")),
     rhr                |-> Safe(Get(w, "rhr")),
     spo2               |-> Safe(Get(w, "spo2")),
     skin_temp_c        |-> Safe(Get(w, "skin_temp_c")),
     sleep_score        |-> Safe(Get(w, "sleep_score")),
     sleep_duration_min |-> Safe(Get(w, "sleep_duration_min")),
     sleep_efficiency   |-> Safe(Get(w, "sleep_efficiency")),
     workout_strain     |-> Safe(Get(w, "workout_strain")),
     raw_json           |-> Get(w, "_raw")]

\* json.dumps(None): the four-character text null, which is not SQL NULL.
JsonNull == Some("null")

\* json.dumps(x) for a contributors dict or None.
JsonDumps(x) == IF x = Absent THEN JsonNull ELSE x

\* The parameters of _save_oura's INSERT.
OuraRow(today, o) ==
    [date                        |-> today,
     readiness_score             |-> Get(o, "readiness_score"),
     readiness_contributors      |-> JsonDumps(Get(o, "readiness_contributors")),
     sleep_score                 |-> Get(o, "sleep_score"),
     sleep_contributors          |-> JsonDumps(Get(o, "sleep_contributors")),
     activity_score              |-> Get(o, "activity_score"),
     activity_contributors       |-> JsonDumps(Get(o, "activity_contributors")),
     stress_high                 |-> Safe(Get(o, "stress_high")),
     recovery_high               |-> Safe(Get(o, "recovery_high")),
     day_summary                 |-> Get(o, "day_summary"),
     temperature_deviation       |-> Safe(Get(o, "temperature_deviation")),
     temperature_trend_deviation |-> Safe(Get(o, "temperature_trend_deviation")),
     raw_json                    |-> Get(o, "_raw")]

\* The parameters of _save_daily_scores' INSERT.
ScoresRow(today, composite, training) ==
    [date |-> today, composite_recovery |-> composite, training_readiness |-> training]

\* INSERT ... ON CONFLICT(target) DO UPDATE SET every column = excluded, as
\* SQLite runs it on a table of `rows`: the statement is rejected when the
\* target is neither the table's primary key nor its UNIQUE constraint; a
\* row without the NOT NULL chat_id is rejected; otherwise the row replaces
\* the one with the same key or is added. Under `with db()` a rejected
\* statement is rolled back and the exception re-raised.
InsertOnConflict(rows, row, target) ==
    IF target # UniqueKey /\ target # PrimaryKey
    THEN [raised |-> SaveRaises, rows |-> rows]
    ELSE IF "chat_id" \notin DOMAIN row
    THEN [raised |-> "IntegrityError", rows |-> rows]
    ELSE [raised |-> "none",
          rows |-> {r \in rows : \E c \in target : r[c] # row[c]} \cup {row}]

Persist_SwallowsErrors(today, whoop, oura, composite, training) ==
    [raised |-> "none",
     saves |-> (IF ShouldSave(whoop) THEN <<"whoop_metrics">> ELSE << >>)
               \o (IF ShouldSave(oura) THEN <<"oura_metrics">> ELSE << >>)
               \o (IF composite # Absent \/ training # Absent
                   THEN <<"daily_scores">> ELSE << >>),
     whoop_metrics |-> whoop_metrics,
     oura_metrics |-> oura_metrics,
     daily_scores |-> daily_scores]

\* aggregate's three writes in order, each its own transaction, on the
\* tables as they are; nothing catches an exception of a write, so the first
\* one that raises ends aggregate. `saves` lists the writes attempted.
Persist(today, whoop, oura, composite, training) ==
    LET w == IF ShouldSave(whoop)
             THEN InsertOnConflict(whoop_metrics, WhoopRow(today, whoop), ConflictTarget)
             ELSE [raised |-> "none", rows |-> whoop_metrics]
        o == IF w.raised = "none" /\ ShouldSave(oura)
             THEN InsertOnConflict(oura_metrics, OuraRow(today, oura), ConflictTarget)
             ELSE [raised |-> "none", rows |-> oura_metrics]
        d == IF w.raised = "none" /\ o.raised = "none"
                /\ (composite # Absent \/ training # Absent)
             THEN InsertOnConflict(daily_scores, ScoresRow(today, composite, training),
                                   ConflictTarget)
             ELSE [raised |-> "none", rows |-> daily_scores]
    IN [raised |-> IF w.raised # "none" THEN w.raised
                   ELSE IF o.raised # "none" THEN o.raised
                   ELSE d.raised,
        saves |-> (IF ShouldSave(whoop) THEN <<"whoop_metrics">> ELSE << >>)
                  \o (IF w.raised = "none" /\ ShouldSave(oura)
                      THEN <<"oura_metrics">> ELSE << >>)
                  \o (IF w.raised = "none" /\ o.raised = "none"
                         /\ (composite # Absent \/ training # Absent)
                      THEN <<"daily_scores">> ELSE << >>),
        whoop_metrics |-> w.rows,
        oura_metrics |-> o.rows,
        daily_scores |-> d.rows]

\* What agg holds before any aggregate() call.
NoAggregate ==
    [ran |-> FALSE, returned |-> FALSE, raised |-> "none",
     whoop |-> EmptyDict, oura |-> EmptyDict,
     composite |-> Absent, training |-> Absent, errors |-> << >>,
     whoop_raised |-> "none", whoop_answered |-> 0,
     oura_called |-> FALSE, oura_raised |-> "none", oura_answered |-> 0,
     saves |-> << >>]

\* aggregate(), for the outcomes w and o of the two get_all calls.
AggregateOutcome(w, o) ==
    LET wh == WhoopHandler(w.raised)
        oh == OuraHandler(o.raised)
        whoop == IF w.raised = "none" THEN w.record ELSE EmptyDict
        oura == IF o.raised = "none" THEN o.record ELSE EmptyDict
        composite == CompositeRecovery(whoop, oura)
        training == TrainingReadiness(whoop, oura, composite)
        p == Persist(Today, whoop, oura, composite, training)
    IN IF ~wh.caught
       THEN [NoAggregate EXCEPT !.ran = TRUE, !.raised = w.raised,
                                !.whoop_raised = w.raised,
                                !.whoop_answered = w.answered]
       ELSE IF ~oh.caught
       THEN [NoAggregate EXCEPT !.ran = TRUE, !.raised = o.raised,
                                !.whoop_raised = w.raised,
                                !.whoop_answered = w.answered,
                                !.oura_called = TRUE, !.oura_raised = o.raised,
                                !.oura_answered = o.answered]
       ELSE [ran |-> TRUE,
             returned |-> p.raised = "none",
             raised |-> p.raised,
             whoop |-> whoop, oura |-> oura,
             composite |-> composite, training |-> training,
             errors |-> wh.errors \o oh.errors,
             whoop_raised |-> w.raised, whoop_answered |-> w.answered,
             oura_called |-> TRUE, oura_raised |-> o.raised,
             oura_answered |-> o.answered,
             saves |-> p.saves]

\* The three tables after aggregate(), for the outcomes w and o of the two
\* get_all calls: as the writes left them when aggregate got that far.
AggregateTables(w, o) ==
    LET whoop == IF w.raised = "none" THEN w.record ELSE EmptyDict
        oura == IF o.raised = "none" THEN o.record ELSE EmptyDict
        composite == CompositeRecovery(whoop, oura)
        training == TrainingReadiness(whoop, oura, composite)
    IN IF WhoopHandler(w.raised).caught /\ OuraHandler(o.raised).caught
       THEN Persist(Today, whoop, oura, composite, training)
       ELSE [raised |-> "none", saves |-> << >>, whoop_metrics |-> whoop_metrics,
             oura_metrics |-> oura_metrics, daily_scores |-> daily_scores]

\* aggregate()
aggregate ==
    /\ agg' = AggregateOutcome(WhoopGetAllNoArgs, OuraGetAll)
    /\ whoop_metrics' = AggregateTables(WhoopGetAllNoArgs, OuraGetAll).whoop_metrics
    /\ oura_metrics' = AggregateTables(WhoopGetAllNoArgs, OuraGetAll).oura_metrics
    /\ daily_scores' = AggregateTables(WhoopGetAllNoArgs, OuraGetAll).daily_scores
    /\ ret' = Ret("aggregate", 0, 0, "", "", FALSE, "not_called", FALSE, NoResponse)
    /\ UNCHANGED <<whoop_run, fetched, procvars>>
    /\ UNCHANGED <<oauth_states, oauth_tokens, now, issued, consumed>>

\* A get_all call that returned `record`.
Returned(record) ==
    [raised |-> "none", record |-> record, answered |-> 1,
     no_token |-> FALSE, got_401 |-> FALSE]

\* The record WhoopClient.get_all returns when the recovery payload holds
\* these two metrics and nothing else was fetched.
WhoopRecord(recovery_score, spo2) ==
    [WhoopNormalize(EmptyDict, EmptyDict, EmptyDict)
       EXCEPT !.recovery_score = recovery_score, !.spo2 = spo2]

\* The record OuraClient.get_all returns when the readiness and stress
\* payloads hold these three metrics and nothing else was fetched.
OuraRecord(readiness_score, stress_high, temperature_deviation) ==
    [OuraNormalize(EmptyDict, EmptyDict, EmptyDict, EmptyDict, EmptyDict)
       EXCEPT !.readiness_score = readiness_score,
              !.stress_high = stress_high,
              !.temperature_deviation = temperature_deviation]

\* An optional value of S.
Opt(S) == {Absent} \cup {Some(x) : x \in S}

\* aggregate from the scoring on (the fetches done), for the outcomes held
\* in `fetched`.
aggregate_fetched ==
    /\ agg' = AggregateOutcome(fetched.whoop, fetched.oura)
    /\ whoop_metrics' = AggregateTables(fetched.whoop, fetched.oura).whoop_metrics
    /\ oura_metrics' = AggregateTables(fetched.whoop, fetched.oura).oura_metrics
    /\ daily_scores' = AggregateTables(fetched.whoop, fetched.oura).daily_scores
    /\ ret' = Ret("aggregate", 0, 0, "", "", FALSE, "not_called", FALSE, NoResponse)
    /\ UNCHANGED <<whoop_run, fetched, procvars>>
    /\ UNCHANGED <<oauth_states, oauth_tokens, now, issued, consumed>>

\* _save_whoop(today, w), today being date.today() as aggregate passes it.
save_whoop(w) ==
    LET r == InsertOnConflict(whoop_metrics, WhoopRow(Today, w), ConflictTarget) IN
    /\ whoop_metrics' = r.rows
    /\ ret' = Ret("save_whoop", 0, 0, "whoop_metrics", r.raised, FALSE, "not_called",
                  r.raised = "none", WhoopRow(Today, w))
    /\ UNCHANGED <<oura_metrics, daily_scores, agg, whoop_run, fetched, procvars>>
    /\ UNCHANGED <<oauth_states, oauth_tokens, now, issued, consumed>>

\* _save_oura(today, o)
save_oura(o) ==
    LET r == InsertOnConflict(oura_metrics, OuraRow(Today, o), ConflictTarget) IN
    /\ oura_metrics' = r.rows
    /\ ret' = Ret("save_oura", 0, 0, "oura_metrics", r.raised, FALSE, "not_called",
                  r.raised = "none", OuraRow(Today, o))
    /\ UNCHANGED <<whoop_metrics, daily_scores, agg, whoop_run, fetched, procvars>>
    /\ UNCHANGED <<oauth_states, oauth_tokens, now, issued, consumed>>

\* _save_daily_scores(today, composite, training)
save_daily_scores(composite, training) ==
    LET r == InsertOnConflict(daily_scores, ScoresRow(Today, composite, training),
                              ConflictTarget) IN
    /\ daily_scores' = r.rows
    /\ ret' = Ret("save_daily_scores", 0, 0, "daily_scores", r.raised, FALSE,
                  "not_called", r.raised = "none", ScoresRow(Today, composite, training))
    /\ UNCHANGED <<whoop_metrics, oura_metrics, agg, whoop_run, fetched, procvars>>
    /\ UNCHANGED <<oauth_states, oauth_tokens, now, issued, consumed>>

\* bot.cmd_health: the aggregation run of one user. aggregate() takes no
\* argument, so aggregate(chat_id) raises TypeError before anything is
\* fetched; the handler reports the error to the chat.
cmd_health(chat_id) ==
    /\ ret' = Ret("cmd_health", 0, chat_id, "", "TypeError", FALSE, "not_called",
                  FALSE, NoResponse)
    /\ UNCHANGED <<oauth_states, oauth_tokens, now, issued, consumed>>
    /\ UNCHANGED aggvars

\* ------------------------------------------- aggregate, statement by statement

\* The statement that follows `pc` in aggregate: the two fetches, the
\* scoring, the three guarded writes, the return.
AggregateNextPc_ScoresEarly(pc) ==
    IF pc = "fetch_whoop" THEN "score"
    ELSE IF pc = "score" THEN "fetch_oura"
    ELSE IF pc = "fetch_oura" THEN "save_whoop"
    ELSE IF pc = "save_whoop" THEN "save_oura"
    ELSE IF pc = "save_oura" THEN "save_daily_scores"
    ELSE "done"

AggregateNextPc(pc) ==
    IF pc = "fetch_whoop" THEN "fetch_oura"
    ELSE IF pc = "fetch_oura" THEN "score"
    ELSE IF pc = "score" THEN "save_whoop"
    ELSE IF pc = "save_whoop" THEN "save_oura"
    ELSE IF pc = "save_oura" THEN "save_daily_scores"
    ELSE "done"

\* A get_all call that raised.
Raised(exception) ==
    [raised |-> exception, record |-> EmptyDict, answered |-> 0,
     no_token |-> exception = "AuthError", got_401 |-> FALSE]

\* What WhoopClient.get_all may give aggregate: the TypeError of
\* WhoopClient(), WhoopAuthError, a record of no value, records with a
\* recovery score, a record whose only value is sleep_performance.
RunWhoopOutcomes ==
    {WhoopGetAllNoArgs, Raised("AuthError")}
    \cup {Returned(r) : r \in
            {WhoopRecord(Absent, Absent), WhoopRecord(Some(70), Absent),
             WhoopRecord(Some(70), Some(949)),
             [WhoopRecord(Absent, Absent) EXCEPT !.sleep_performance = Some(930)]}}

\* What OuraClient.get_all may give aggregate: the record of no value (what
\* OuraClient() returns as it stands), OuraAuthError, records with a
\* readiness score, records whose only value is steps or spo2_avg.
RunOuraOutcomes ==
    {OuraGetAll, Raised("AuthError")}
    \cup {Returned(r) : r \in
            {OuraRecord(Some(100), Absent, Absent), OuraRecord(Some(55), Some(20), Some(10)),
             [OuraRecord(Absent, Absent, Absent) EXCEPT !.steps = Some(8000)],
             [OuraRecord(Absent, Absent, Absent) EXCEPT !.spo2_avg = Some(970)]}}

\* aggregate() is called: today is read, whoop = {}, oura = {}, errors = [].
aggregate_start ==
    /\ agg_run.pc \in {"idle", "done", "raised"}
    /\ agg_run' = [NoRun EXCEPT !.pc = "fetch_whoop"]
    /\ ret' = Ret("aggregate_start", 0, 0, "", "", FALSE, "not_called", FALSE,
                  NoResponse)
    /\ UNCHANGED <<oauth_states, oauth_tokens, now, issued, consumed>>
    /\ UNCHANGED <<whoop_metrics, oura_metrics, daily_scores, agg, whoop_run, fetched>>
    /\ UNCHANGED <<callbacks, token_calls, revoked, lookup, users, job>>

\* try: whoop = WhoopClient().get_all(), with its two except clauses.
aggregate_fetch_whoop ==
    /\ agg_run.pc = "fetch_whoop"
    /\ \E w \in RunWhoopOutcomes :
        /\ agg_run' = [agg_run EXCEPT
                     !.pc = AggregateNextPc(agg_run.pc),
                     !.whoop = IF w.raised = "none" THEN w.record ELSE @,
                     !.errors = @ \o WhoopHandler(w.raised).errors,
                     !.steps = Append(@, "fetch_whoop")]
        /\ ret' = Ret("aggregate_fetch_whoop", 0, 0, "whoop", w.raised, FALSE,
                      "not_called", FALSE, NoResponse)
    /\ UNCHANGED <<oauth_states, oauth_tokens, now, issued, consumed>>
    /\ UNCHANGED <<whoop_metrics, oura_metrics, daily_scores, agg, whoop_run, fetched>>
    /\ UNCHANGED <<callbacks, token_calls, revoked, lookup, users, job>>

\* try: oura = OuraClient().get_all(), with its two except clauses.
aggregate_fetch_oura ==
    /\ agg_run.pc = "fetch_oura"
    /\ \E o \in RunOuraOutcomes :
        /\ agg_run' = [agg_run EXCEPT
                     !.pc = AggregateNextPc(agg_run.pc),
                     !.oura = IF o.raised = "none" THEN o.record ELSE @,
                     !.errors = @ \o OuraHandler(o.raised).errors,
                     !.steps = Append(@, "fetch_oura")]
        /\ ret' = Ret("aggregate_fetch_oura", 0, 0, "oura", o.raised, FALSE,
                      "not_called", FALSE, NoResponse)
    /\ UNCHANGED <<oauth_states, oauth_tokens, now, issued, consumed>>
    /\ UNCHANGED <<whoop_metrics, oura_metrics, daily_scores, agg, whoop_run, fetched>>
    /\ UNCHANGED <<callbacks, token_calls, revoked, lookup, users, job>>

\* composite = _composite_recovery(whoop, oura);
\* training = _training_readiness(whoop, oura, composite)
aggregate_score ==
    LET composite == CompositeRecovery(agg_run.whoop, agg_run.oura) IN
    /\ agg_run.pc = "score"
    /\ agg_run' = [agg_run EXCEPT
                 !.pc = AggregateNextPc(agg_run.pc),
                 !.composite = composite,
                 !.training = TrainingReadiness(agg_run.whoop, agg_run.oura, composite),
                 !.steps = Append(@, "score")]
    /\ ret' = Ret("aggregate_score", 0, 0, "", "", FALSE, "not_called", FALSE,
                  NoResponse)
    /\ UNCHANGED <<oauth_states, oauth_tokens, now, issued, consumed>>
    /\ UNCHANGED <<whoop_metrics, oura_metrics, daily_scores, agg, whoop_run, fetched>>
    /\ UNCHANGED <<callbacks, token_calls, revoked, lookup, users, job>>

RunAfterWrite_GoesOnAfterFailure(guard, raised, step) ==
    IF ~guard THEN [agg_run EXCEPT !.pc = AggregateNextPc(agg_run.pc)]
    ELSE [agg_run EXCEPT !.pc = AggregateNextPc(agg_run.pc), !.raised = raised,
                         !.steps = Append(@, step)]

\* The run after the guarded write at run.pc: skipped when the guard is
\* false; an exception of the write leaves aggregate.
RunAfterWrite(guard, raised, step) ==
    IF ~guard THEN [agg_run EXCEPT !.pc = AggregateNextPc(agg_run.pc)]
    ELSE IF raised # "none"
    THEN [agg_run EXCEPT !.pc = "raised", !.raised = raised, !.steps = Append(@, step)]
    ELSE [agg_run EXCEPT !.pc = AggregateNextPc(agg_run.pc), !.steps = Append(@, step)]

\* if whoop and not all(...): _save_whoop(today, whoop), a transaction of
\* its own.
aggregate_save_whoop ==
    LET guard == ShouldSave(agg_run.whoop)
        row == WhoopRow(Today, agg_run.whoop)
        r == InsertOnConflict(whoop_metrics, row, ConflictTarget) IN
    /\ agg_run.pc = "save_whoop"
    /\ whoop_metrics' = IF guard THEN r.rows ELSE whoop_metrics
    /\ agg_run' = RunAfterWrite(guard, r.raised, "save_whoop")
    /\ ret' = Ret("aggregate_save_whoop", 0, 0, "whoop_metrics",
                  IF guard THEN r.raised ELSE "skipped", FALSE, "not_called",
                  guard /\ r.raised = "none", row)
    /\ UNCHANGED <<oauth_states, oauth_tokens, now, issued, consumed>>
    /\ UNCHANGED <<oura_metrics, daily_scores, agg, whoop_run, fetched>>
    /\ UNCHANGED <<callbacks, token_calls, revoked, lookup, users, job>>

\* if oura and not all(...): _save_oura(today, oura)
aggregate_save_oura ==
    LET guard == ShouldSave(agg_run.oura)
        row == OuraRow(Today, agg_run.oura)
        r == InsertOnConflict(oura_metrics, row, ConflictTarget) IN
    /\ agg_run.pc = "save_oura"
    /\ oura_metrics' = IF guard THEN r.rows ELSE oura_metrics
    /\ agg_run' = RunAfterWrite(guard, r.raised, "save_oura")
    /\ ret' = Ret("aggregate_save_oura", 0, 0, "oura_metrics",
                  IF guard THEN r.raised ELSE "skipped", FALSE, "not_called",
                  guard /\ r.raised = "none", row)
    /\ UNCHANGED <<oauth_states, oauth_tokens, now, issued, consumed>>
    /\ UNCHANGED <<whoop_metrics, daily_scores, agg, whoop_run, fetched>>
    /\ UNCHANGED <<callbacks, token_calls, revoked, lookup, users, job>>

\* if composite is not None or training is not None:
\* _save_daily_scores(today, composite, training); then the return.
aggregate_save_daily_scores ==
    LET guard == agg_run.composite # Absent \/ agg_run.training # Absent
        row == ScoresRow(Today, agg_run.composite, agg_run.training)
        r == InsertOnConflict(daily_scores, row, ConflictTarget) IN
    /\ agg_run.pc = "save_daily_scores"
    /\ daily_scores' = IF guard THEN r.rows ELSE daily_scores
    /\ agg_run' = RunAfterWrite(guard, r.raised, "save_daily_scores")
    /\ ret' = Ret("aggregate_save_daily_scores", 0, 0, "daily_scores",
                  IF guard THEN r.raised ELSE "skipped", FALSE, "not_called",
                  guard /\ r.raised = "none", row)
    /\ UNCHANGED <<oauth_states, oauth_tokens, now, issued, consumed>>
    /\ UNCHANGED <<whoop_metrics, oura_metrics, agg, whoop_run, fetched>>
    /\ UNCHANGED <<callbacks, token_calls, revoked, lookup, users, job>>

\* --------------------------------------------------------- bot/scheduler.py

\* ensure_user: INSERT OR IGNORE INTO users.
ensure_user(chat_id) ==
    /\ users' = users \cup {chat_id}
    /\ ret' = Ret("ensure_user", 0, chat_id, "", "", FALSE, "not_called", FALSE,
                  NoResponse)
    /\ UNCHANGED <<oauth_states, oauth_tokens, now, issued, consumed>>
    /\ UNCHANGED <<whoop_metrics, oura_metrics, daily_scores, agg, whoop_run, fetched>>
    /\ UNCHANGED <<callbacks, token_calls, revoked, lookup, agg_run, job>>

\* get_all_users: SELECT chat_id FROM users, the rows in the order of their
\* INTEGER PRIMARY KEY.
RECURSIVE GetAllUsers(_)
GetAllUsers(table) ==
    IF table = {} THEN << >>
    ELSE LET first == CHOOSE x \in table : \A y \in table : x <= y
         IN <<first>> \o GetAllUsers(table \ {first})

\* The three jobs start_scheduler registers.
JobKinds == {"morning_briefing", "evening_reminder", "evening_summary"}

\* What building the text of a job raises: morning_briefing() and
\* evening_summary() take no argument and are called with chat_id; the
\* reminder's text is a literal.
JobText(kind) ==
    IF kind \in {"morning_briefing", "evening_summary"} THEN "TypeError" ELSE "none"

\* What the body of the loop may raise for one user: the exception of the
\* text, else nothing or an error of the Telegram request.
JobBodyOutcomes(kind) ==
    IF JobText(kind) # "none" THEN {JobText(kind)} ELSE {"none", "TelegramError"}

JobHandler_Reraises(raised) == raised = "none"

\* Whether the loop goes on after the body: `except Exception` catches every
\* exception of the body and logs it.
JobHandler(raised) == TRUE

\* A scheduled job begins: for chat_id in get_all_users().
job_start(kind) ==
    /\ job.pc \in {"idle", "done", "raised"}
    /\ job' = [NoJob EXCEPT !.pc = IF users = {} THEN "done" ELSE "loop",
                            !.kind = kind, !.registered = users,
                            !.todo = GetAllUsers(users)]
    /\ ret' = Ret("job_start", 0, 0, kind, "", FALSE, "not_called", FALSE, NoResponse)
    /\ UNCHANGED <<oauth_states, oauth_tokens, now, issued, consumed>>
    /\ UNCHANGED <<whoop_metrics, oura_metrics, daily_scores, agg, whoop_run, fetched>>
    /\ UNCHANGED <<callbacks, token_calls, revoked, lookup, agg_run, users>>

\* One iteration of the loop: the try block for the next chat_id.
job_step ==
    /\ job.pc = "loop"
    /\ \E raised \in JobBodyOutcomes(job.kind) :
        LET chat_id == Head(job.todo)
            rest == Tail(job.todo) IN
        /\ job' = [job EXCEPT
                     !.pc = IF ~JobHandler(raised) THEN "raised"
                            ELSE IF rest = << >> THEN "done" ELSE "loop",
                     !.todo = rest,
                     !.processed = Append(@, chat_id),
                     !.sent = IF raised = "none" THEN @ \cup {chat_id} ELSE @,
                     !.failed = IF raised # "none" THEN @ \cup {chat_id} ELSE @]
        /\ ret' = Ret("job_step", 0, chat_id, job.kind, raised, FALSE, "not_called",
                      FALSE, NoResponse)
    /\ UNCHANGED <<oauth_states, oauth_tokens, now, issued, consumed>>
    /\ UNCHANGED <<whoop_metrics, oura_metrics, daily_scores, agg, whoop_run, fetched>>
    /\ UNCHANGED <<callbacks, token_calls, revoked, lookup, agg_run, users>>

\* ------------------------------------------------- the clients' date windows

\* How many days before today a record a provider holds may be dated.
Ages == 0..MaxAge

\* The records dated `ages` days before today, the oldest first.
RECURSIVE OldestFirst(_)
OldestFirst(ages) ==
    IF ages = {} THEN << >>
    ELSE LET a == CHOOSE x \in ages : \A y \in ages : y <= x
         IN <<[age |-> a]>> \o OldestFirst(ages \ {a})

\* The records dated `ages` days before today, the most recent first.
RECURSIVE NewestFirst(_)
NewestFirst(ages) ==
    IF ages = {} THEN << >>
    ELSE LET a == CHOOSE x \in ages : \A y \in ages : x <= y
         IN <<[age |-> a]>> \o NewestFirst(ages \ {a})

\* The first `limit` elements of a sequence.
Limit(records, limit) == SubSeq(records, 1, Min(limit, Len(records)))

\* The Whoop API's answer to GET endpoint?start=..&end=..&limit=1 with the
\* window of _today_window (yesterday 00:00 to the end of today), when the
\* user's records are dated `held` days before today: most recent first.
WhoopWindowed(status, held) ==
    [status |-> status,
     records |-> IF status = 200
                 THEN Limit(NewestFirst({a \in held : a <= WhoopWindowDays}), 1)
                 ELSE << >>]

\* The Whoop API's answer to GET endpoint?limit=1: no start, no end.
WhoopUnwindowed(status, held) ==
    [status |-> status,
     records |-> IF status = 200 THEN Limit(NewestFirst(held), 1) ELSE << >>]

\* The Oura API's answer to GET endpoint?start_date=..&end_date=today where
\* start_date is `days` days before today: one document a day, oldest first.
OuraWindowed(status, held, days) ==
    [status |-> status,
     records |-> IF status = 200 THEN OldestFirst({a \in held : a <= days})
                 ELSE << >>]

\* Headers built from a valid token.
ValidHeaders == [raised |-> "none"]

\* WhoopClient._latest: records[0] of the windowed answer; when that holds no
\* record, records[0] of a second request that carries only limit=1; None on
\* any exception.
WhoopLatest(first, second) ==
    IF first.raised # "none" THEN Absent
    ELSE IF first.records # << >> THEN Some(first.records[1])
    ELSE IF second.raised # "none" THEN Absent
    ELSE IF second.records # << >> THEN Some(second.records[1])
    ELSE Absent

\* The HTTP statuses drawn for a request: answered, server error.
LookupStatuses == {200, 500}

\* WhoopClient(chat_id)._latest(endpoint) with a valid token.
whoop_latest(endpoint) ==
    \E held \in SUBSET Ages, status \in LookupStatuses :
        /\ lookup' = [client |-> "whoop", endpoint |-> endpoint, held |-> held,
                      failed |-> status # 200,
                      result |-> WhoopLatest(
                                    ClientGet(ValidHeaders, WhoopWindowed(status, held)),
                                    ClientGet(ValidHeaders, WhoopUnwindowed(status, held)))]
        /\ ret' = Ret("whoop_latest", 0, 0, "whoop", "", FALSE, "not_called",
                      FALSE, NoResponse)
        /\ UNCHANGED <<oauth_states, oauth_tokens, now, issued, consumed>>
        /\ UNCHANGED <<whoop_metrics, oura_metrics, daily_scores, agg, whoop_run, fetched>>
        /\ UNCHANGED <<callbacks, token_calls, revoked, agg_run, users, job>>

\* get_activity passes fallback_days=2; the other four endpoints pass none.
OuraFallbackDays(endpoint) ==
    IF endpoint = "/daily_activity" THEN ActivityFallbackDays ELSE 0

\* The endpoints of OuraClient.
OuraEndpoints ==
    {"/daily_readiness", "/daily_sleep", "/daily_activity", "/daily_stress",
     "/daily_spo2"}

\* OuraClient._fetch_today(endpoint, fallback_days) with a valid token.
oura_fetch_today(endpoint) ==
    \E held \in SUBSET Ages, status \in LookupStatuses :
        /\ lookup' = [client |-> "oura", endpoint |-> endpoint, held |-> held,
                      failed |-> status # 200,
                      result |-> OuraFetchToday(
                                    ClientGet(ValidHeaders, OuraWindowed(status, held, 0)),
                                    ClientGet(ValidHeaders,
                                              OuraWindowed(status, held,
                                                           OuraFallbackDays(endpoint))),
                                    OuraFallbackDays(endpoint))]
        /\ ret' = Ret("oura_fetch_today", 0, 0, "oura", "", FALSE, "not_called",
                      FALSE, NoResponse)
        /\ UNCHANGED <<oauth_states, oauth_tokens, now, issued, consumed>>
        /\ UNCHANGED <<whoop_metrics, oura_metrics, daily_scores, agg, whoop_run, fetched>>
        /\ UNCHANGED <<callbacks, token_calls, revoked, agg_run, users, job>>

\* init_db on an empty database file.
Init ==
    /\ oauth_states = << >>
    /\ oauth_tokens = << >>
    /\ now = StartTime
    /\ issued = << >>
    /\ consumed = {}
    /\ ret = Ret("init", 0, 0, "", "", FALSE, "not_called", FALSE, NoResponse)
    /\ whoop_metrics = {}
    /\ oura_metrics = {}
    /\ daily_scores = {}
    /\ agg = NoAggregate
    /\ whoop_run = NoWhoopRun
    /\ InitProc
    /\ fetched = [whoop |-> WhoopGetAllNoArgs, oura |-> OuraGetAll]

\* The scores the two providers report: whole numbers in 0..MaxScore.
Scores == 0..MaxScore

\* _composite_recovery over every pair of scores, each present or absent.
InitComposite ==
    /\ oauth_states = << >>
    /\ oauth_tokens = << >>
    /\ now = StartTime
    /\ issued = << >>
    /\ consumed = {}
    /\ ret = Ret("init", 0, 0, "", "", FALSE, "not_called", FALSE, NoResponse)
    /\ whoop_metrics = {}
    /\ oura_metrics = {}
    /\ daily_scores = {}
    /\ agg = NoAggregate
    /\ whoop_run = NoWhoopRun
    /\ InitProc
    /\ fetched \in {[whoop |-> Returned(WhoopRecord(a, Absent)),
                      oura |-> Returned(OuraRecord(b, Absent, Absent))] :
                       a \in Opt(Scores), b \in Opt(Scores)}

SpecComposite == InitComposite /\ [][aggregate_fetched]_vars

\* The inputs of _training_readiness: recovery and readiness scores, hours of
\* high stress in tenths (80 is where the penalty reaches 10, 1000 is 100 h),
\* temperature deviation in hundredths of a degree (100 is where the penalty
\* reaches 5), SpO2 in tenths of a percent (950 is the threshold). The values
\* are ones whose penalties sum to a decimal that binary floating point
\* rounds as exact arithmetic does.
TrainingRecoveries == Opt({0, 3, 70, 85, 100})

TrainingReadinesses == Opt({50, 55, 100})

StressHighs == Opt({0, 1, 20, 80, 81, 1000})

TemperatureDeviations == Opt({0, 10, -10, 100, -300})

Spo2s == Opt({970, 950, 949, 900, 400})

\* _training_readiness over the sample of its inputs, each present or absent.
InitTraining ==
    /\ oauth_states = << >>
    /\ oauth_tokens = << >>
    /\ now = StartTime
    /\ issued = << >>
    /\ consumed = {}
    /\ ret = Ret("init", 0, 0, "", "", FALSE, "not_called", FALSE, NoResponse)
    /\ whoop_metrics = {}
    /\ oura_metrics = {}
    /\ daily_scores = {}
    /\ agg = NoAggregate
    /\ whoop_run = NoWhoopRun
    /\ InitProc
    /\ fetched \in {[whoop |-> Returned(WhoopRecord(a, spo2)),
                      oura |-> Returned(OuraRecord(b, stress, temp))] :
                       a \in TrainingRecoveries, b \in TrainingReadinesses,
                       stress \in StressHighs, temp \in TemperatureDeviations,
                       spo2 \in Spo2s}

SpecTraining == InitTraining /\ [][aggregate_fetched]_vars

\* The authorization handshake alone: every user, every provider argument.
NextAuth ==
    \/ \E chat_id \in Users, provider \in ProviderArgs : get_auth_url(chat_id, provider)
    \/ whoop_callback
    \/ oura_callback

SpecAuth == Init /\ [][NextAuth]_vars

\* The token lifecycle of one user: the handshake that stores the token rows,
\* the clock, and get_valid_token with its inline refresh.
TokenUser == CHOOSE chat_id \in Users : \A other \in Users : chat_id <= other

NextToken ==
    \/ \E provider \in Providers : get_auth_url(TokenUser, provider)
    \/ \E state \in DOMAIN oauth_states : callback("whoop", state, FALSE)
    \/ \E state \in DOMAIN oauth_states : callback("oura", state, FALSE)
    \/ \E provider \in Providers : get_valid_token(TokenUser, provider)
    \/ Tick

SpecToken == Init /\ [][NextToken]_vars

\* Two Flask threads serving callbacks of one user's authorizations.
NextRace ==
    \/ get_auth_url(TokenUser, "whoop")
    \/ \E r \in Requests, route \in Providers, state \in DOMAIN issued :
            callback_start(r, route, state)
    \/ \E r \in Requests : pop_state_select(r)
    \/ \E r \in Requests : pop_state_delete(r)
    \/ \E r \in Requests : callback_exchange(r)

SpecRace == Init /\ [][NextRace]_vars

\* Two threads calling get_valid_token for one user's Whoop token, once an
\* authorization has stored it.
NextRefresh ==
    \/ get_auth_url(TokenUser, "whoop")
    \/ \E state \in DOMAIN oauth_states :
            /\ <<TokenUser, "whoop">> \notin DOMAIN oauth_tokens
            /\ callback("whoop", state, FALSE)
    \/ \E c \in Callers : token_call_start(c, TokenUser, "whoop")
    \/ \E c \in Callers : token_call_read(c)
    \/ \E c \in Callers : refresh_token_read(c)
    \/ \E c \in Callers : refresh_token_post(c)
    \/ \E c \in Callers : refresh_token_save(c)
    \/ Tick

SpecRefresh == Init /\ [][NextRefresh]_vars

\* The clients' lookups of the latest record, over what the provider holds.
NextWindow ==
    \/ \E endpoint \in {"/recovery", "/activity/sleep"} : whoop_latest(endpoint)
    \/ \E endpoint \in OuraEndpoints : oura_fetch_today(endpoint)

SpecWindow == Init /\ [][NextWindow]_vars

\* Aggregation runs, statement by statement, over what the two get_all
\* calls may give.
NextRun ==
    \/ aggregate_start
    \/ aggregate_fetch_whoop
    \/ aggregate_fetch_oura
    \/ aggregate_score
    \/ aggregate_save_whoop
    \/ aggregate_save_oura
    \/ aggregate_save_daily_scores

SpecRun == Init /\ [][NextRun]_vars

\* The scheduled jobs, while users register.
NextJob ==
    \/ \E chat_id \in Users : ensure_user(chat_id)
    \/ \E kind \in JobKinds : job_start(kind)
    \/ job_step

SpecJob == Init /\ [][NextJob]_vars

\* The job's thread keeps running: a loop that can take its next iteration
\* takes it.
SpecJobFair == SpecJob /\ WF_vars(job_step)

\* The Whoop client, with the whoop handshake of one user that gives the
\* client a token to find, and the clock that makes the token expire.
NextClient ==
    \/ get_auth_url(TokenUser, "whoop")
    \/ \E state \in DOMAIN oauth_states : callback("whoop", state, FALSE)
    \/ Tick
    \/ whoop_get_all(TokenUser)
    \/ whoop_get

SpecClient == Init /\ [][NextClient]_vars

\* aggregate, before and after one user's authorizations with the two
\* providers.
NextAgg ==
    \/ \E provider \in Providers : get_auth_url(TokenUser, provider)
    \/ \E state \in DOMAIN oauth_states : callback("whoop", state, FALSE)
    \/ \E state \in DOMAIN oauth_states : callback("oura", state, FALSE)
    \/ aggregate

SpecAgg == Init /\ [][NextAgg]_vars

\* The scores _save_daily_scores is given, in tenths.
SavedScores == Opt({570, 600, 850})

\* The three writes, called with the records and scores aggregate passes
\* them, and the users' aggregation runs.
NextSave ==
    \/ \E a \in TrainingRecoveries, spo2 \in Spo2s : save_whoop(WhoopRecord(a, spo2))
    \/ \E b \in TrainingReadinesses, stress \in StressHighs,
          temp \in TemperatureDeviations : save_oura(OuraRecord(b, stress, temp))
    \/ \E composite \in SavedScores, training \in SavedScores :
          save_daily_scores(composite, training)
    \/ \E chat_id \in Users : cmd_health(chat_id)

SpecSave == Init /\ [][NextSave]_vars

\* ------------------------------------------------------- bot/assistant.py

\* A row as a table stores it: the INSERT's columns and the chat_id column.
WithUser(row, chat_id) ==
    [c \in DOMAIN row \cup {"chat_id"} |-> IF c = "chat_id" THEN chat_id ELSE row[c]]

\* LEFT JOIN table ON table.date = d.date: the rows of the table with d's
\* date, or one NULL row when there is none.
LeftJoin(table, d) ==
    IF \E r \in table : r.date = d.date
    THEN {Some(r) : r \in {x \in table : x.date = d.date}}
    ELSE {Absent}

\* The rows of _get_history's SELECT before ORDER BY and LIMIT: each
\* daily_scores row dated before date('now'), joined by date with
\* whoop_metrics and oura_metrics. No column of the statement names a user.
HistoryJoin ==
    {[d |-> d, w |-> w, o |-> o] :
        d \in {x \in daily_scores : x.date < Today},
        w \in UNION {LeftJoin(whoop_metrics, x) : x \in daily_scores},
        o \in UNION {LeftJoin(oura_metrics, x) : x \in daily_scores}}

\* The joined rows: those of HistoryJoin whose w and o match d's date.
HistoryRows ==
    {j \in HistoryJoin : j.w \in LeftJoin(whoop_metrics, j.d)
                         /\ j.o \in LeftJoin(oura_metrics, j.d)}

\* ORDER BY d.date DESC LIMIT days: the answers SQLite may give, rows of
\* equal date in any order.
HistoryAnswers(days) ==
    LET n == IF Cardinality(HistoryRows) < days THEN Cardinality(HistoryRows) ELSE days
    IN {rows \in [1..n -> HistoryRows] :
          /\ \A i \in 1..n, j \in 1..n : i < j =>
                (rows[i] # rows[j] /\ rows[i].d.date >= rows[j].d.date)
          /\ \A x \in HistoryRows :
                (\A i \in 1..n : rows[i] # x) => \A i \in 1..n : x.d.date <= rows[i].d.date}

\* _get_history(days), called while serving user chat_id (the function is
\* given no user): the rows it fetched.
get_history(chat_id, days) ==
    /\ \E rows \in HistoryAnswers(days) :
         ret' = Ret("get_history", days, chat_id, "", "", FALSE, "not_called", FALSE, rows)
    /\ UNCHANGED <<oauth_states, oauth_tokens, now, issued, consumed>>
    /\ UNCHANGED aggvars

\* The days the stored rows are dated: today and the two days before.
HistoryDates == {Today - 2, Today - 1, Today}

\* Tables a database file can hold under init_db's schema: at most one row
\* per (chat_id, date) in each.
HistoryScoreTables ==
    SUBSET {WithUser(ScoresRow(d, Some(600), Some(570)), u) : u \in Users, d \in HistoryDates}

HistoryWhoopTables ==
    SUBSET {WithUser(WhoopRow(Today - 1, WhoopRecord(Some(70), Absent)), u) : u \in Users}

HistoryOuraTables ==
    SUBSET {WithUser(OuraRow(Today - 1, OuraRecord(Some(50), Absent, Absent)), TokenUser)}

\* _get_history over the tables a database file can hold.
InitHistory ==
    /\ oauth_states = << >>
    /\ oauth_tokens = << >>
    /\ now = StartTime
    /\ issued = << >>
    /\ consumed = {}
    /\ ret = Ret("init", 0, 0, "", "", FALSE, "not_called", FALSE, NoResponse)
    /\ whoop_metrics \in HistoryWhoopTables
    /\ oura_metrics \in HistoryOuraTables
    /\ daily_scores \in HistoryScoreTables
    /\ agg = NoAggregate
    /\ whoop_run = NoWhoopRun
    /\ InitProc
    /\ fetched = [whoop |-> WhoopGetAllNoArgs, oura |-> OuraGetAll]

NextHistory ==
    \E chat_id \in Users, days \in 1..MaxDays : get_history(chat_id, days)

SpecHistory == InitHistory /\ [][NextHistory]_vars

\* The whole program.
Next ==
    \/ NextAuth
    \/ aggregate
    \/ \E chat_id \in Users : cmd_health(chat_id)
    \/ NextHistory
    \/ \E chat_id \in Users : whoop_get_all(chat_id)
    \/ whoop_get
    \/ \E chat_id \in Users, provider \in Providers : get_valid_token(chat_id, provider)
    \/ Tick

Spec == Init /\ [][Next]_vars

\* ------------------------------------------------------------------ claims

\* The (chat_id, provider) key the last operation worked on.
RetKey == <<ret.chat_id, ret.provider>>

\* The last operation was a callback handler.
IsCallback(r) == r.op \in {"whoop_callback", "oura_callback"}

\* C1: OAuth state is single-use. Once a callback's lookup has found (and so
\* deleted) a state, whether the exchange that followed succeeded or failed,
\* every later callback that reaches the lookup with the same state value is
\* answered "Invalid state", sends no code exchange and writes no token.
C1_StateSingleUse ==
    [][(IsCallback(ret') /\ ret'.result # "oauth_error" /\ ret'.state \in consumed)
        => /\ ret'.result = "invalid_state"
           /\ ~ret'.exchanged
           /\ oauth_tokens' = oauth_tokens
           /\ oauth_states' = oauth_states]_vars

\* C1 witness: a state issued for whoop comes back to /callback/whoop after
\* an earlier lookup consumed it, and is rejected.
C1_Witness ==
    /\ ret.op = "whoop_callback"
    /\ ret.result = "invalid_state"
    /\ ret.state \in consumed
    /\ issued[ret.state].provider = "whoop"

\* C2: a callback writes the token row of (user, provider) only when the
\* state it consumed in that step was issued by get_auth_url for exactly that
\* user and that provider; no other row changes.
C2_TokenBoundToState ==
    [][\A key \in DOMAIN oauth_tokens' :
         (key \notin DOMAIN oauth_tokens \/ oauth_tokens'[key] # oauth_tokens[key])
         => /\ IsCallback(ret')
            /\ ret'.state \in DOMAIN oauth_states
            /\ ret'.state \in DOMAIN issued
            /\ issued[ret'.state] = [provider |-> key[2], chat_id |-> key[1]]]_vars

\* C2 witness: user 2's oura authorization completes while a state of user 1
\* is still pending, and only user 2's oura row exists.
C2_Witness ==
    /\ ret.op = "oura_callback"
    /\ ret.result = "connected"
    /\ DOMAIN oauth_tokens = {<<2, "oura">>}
    /\ issued[ret.state] = [provider |-> "oura", chat_id |-> 2]
    /\ \E s \in DOMAIN oauth_states : oauth_states[s].chat_id = 1

\* C3: a callback whose state is missing, unknown or already consumed (no row
\* in oauth_states) is rejected, sends no code exchange and leaves
\* oauth_tokens unchanged.
C3_InvalidStateRejected ==
    [][(IsCallback(ret') /\ ret'.state \notin DOMAIN oauth_states)
        => /\ ret'.result \in {"invalid_state", "oauth_error"}
           /\ ~ret'.exchanged
           /\ ~ret'.wrote
           /\ oauth_tokens' = oauth_tokens]_vars

\* C3 witness: a forged state is rejected as invalid while a genuine state is
\* pending.
C3_Witness ==
    /\ IsCallback(ret)
    /\ ret.state = ForgedState
    /\ ret.result = "invalid_state"
    /\ oauth_states # << >>

\* C4: for an existing token row, get_valid_token calls refresh_token exactly
\* when expires_at - now <= 60; otherwise it returns the stored access token,
\* leaves oauth_tokens unchanged and makes no provider call.
C4_RefreshBoundary ==
    [][(ret'.op = "get_valid_token" /\ <<ret'.chat_id, ret'.provider>> \in DOMAIN oauth_tokens)
        => LET row == oauth_tokens[<<ret'.chat_id, ret'.provider>>] IN
           /\ (ret'.refresh # "not_called") <=> (row.expires_at - now <= REFRESH_MARGIN)
           /\ ret'.refresh = "not_called"
                => /\ ret'.result = row.access_token
                   /\ oauth_tokens' = oauth_tokens
                   /\ ret'.resp = NoResponse]_vars

\* C4 witness: with 61 seconds left the stored token is returned and no
\* refresh is called.
C4_Witness ==
    /\ ret.op = "get_valid_token"
    /\ ret.refresh = "not_called"
    /\ RetKey \in DOMAIN oauth_tokens
    /\ oauth_tokens[RetKey].expires_at - now = REFRESH_MARGIN + 1
    /\ ret.result = oauth_tokens[RetKey].access_token

\* C4, the other side of the boundary: with exactly 60 seconds left a refresh
\* request is sent (here one the provider rejects, so the row still shows it).
C4_RefreshAtSixty ==
    /\ ret.op = "get_valid_token"
    /\ ret.refresh = "failed"
    /\ RetKey \in DOMAIN oauth_tokens
    /\ oauth_tokens[RetKey].expires_at - now = REFRESH_MARGIN

\* C5: a successful refresh never leaves the stored refresh token null (a
\* response without a new refresh token keeps the previous one).
C5_RefreshTokenRetained ==
    (ret.op = "get_valid_token" /\ ret.refresh = "ok")
        => oauth_tokens[RetKey].refresh_token # None

\* C5: the case the claim is about is reached: a refresh succeeded on a
\* response that carries no refresh token.
C5_Witness ==
    /\ ret.op = "get_valid_token"
    /\ ret.refresh = "ok"
    /\ ~ret.resp.has_refresh_token

\* C6: refresh_token returns None when no refresh token is on file or when
\* the provider rejects the request, and in both cases oauth_tokens is left
\* exactly as it was.
C6_FailedRefreshLeavesStore ==
    [][(ret'.op = "get_valid_token" /\ ret'.refresh \in {"no_refresh_token", "failed"})
        => /\ ret'.result = None
           /\ ~ret'.wrote
           /\ oauth_tokens' = oauth_tokens]_vars

\* C6 witness: the provider rejected a refresh request for a row that holds a
\* refresh token, and the row is still there with it.
C6_Witness ==
    /\ ret.op = "get_valid_token"
    /\ ret.refresh = "failed"
    /\ ret.resp.status = "error"
    /\ ret.result = None
    /\ RetKey \in DOMAIN oauth_tokens
    /\ oauth_tokens[RetKey].refresh_token # None

\* C6, the other case: no refresh token on file, no request sent.
C6_NoRefreshTokenOnFile ==
    /\ ret.op = "get_valid_token"
    /\ ret.refresh = "no_refresh_token"
    /\ RetKey \in DOMAIN oauth_tokens

\* C7 as claimed: every write of a token row sets expires_at to the time of
\* the write plus the lifetime the provider reported in that response, and
\* never uses a lifetime the provider did not report.
C7_ExpiresAtFromReport ==
    [][ret'.wrote
        => /\ ret'.resp.has_expires_in
           /\ oauth_tokens'[<<ret'.chat_id, ret'.provider>>].expires_at
                = now + ret'.resp.expires_in]_vars

\* C7 as amended: every write of a token row sets expires_at to the time of
\* the write plus the lifetime the provider reported in that response, or
\* plus 3600 seconds when the response reports no lifetime.
C7_ExpiresAtFromReportOrDefault ==
    [][ret'.wrote
        => oauth_tokens'[<<ret'.chat_id, ret'.provider>>].expires_at
             = now + (IF ret'.resp.has_expires_in
                      THEN ret'.resp.expires_in ELSE DEFAULT_EXPIRES_IN)]_vars

\* C7 witness: a refresh wrote a row from a response that reports a lifetime
\* of 61 seconds, and the row expires 61 seconds after the write.
C7_Witness ==
    /\ ret.op = "get_valid_token"
    /\ ret.wrote
    /\ ret.resp.has_expires_in
    /\ oauth_tokens[RetKey].expires_at = now + ret.resp.expires_in


\* The error entries of an aggregate result that name `provider`.
ErrorsOf(errors, provider) ==
    {i \in 1..Len(errors) : errors[i].provider = provider}

\* The exceptions a get_all call can end with, "none" for a return.
Raisable == {"none", "AuthError", "HTTPError", "TypeError"}

\* C8 as claimed, for the Whoop client: a finished get_all has raised the
\* provider's AuthError exactly when get_valid_token gave one of its requests
\* no token or the provider answered one of them 401.
C8_AuthErrorIffNoTokenOr401 ==
    whoop_run.pc = "done" =>
        ((whoop_run.raised = "AuthError") <=> (whoop_run.no_token \/ whoop_run.got_401))

\* C8: the cases the claim is about are reached and get_all has returned a
\* record: one where the user holds no whoop token, one where the provider
\* answered 401 to a request that carried a token.
C8_NoTokenReturnsRecord ==
    /\ whoop_run.pc = "done"
    /\ whoop_run.no_token
    /\ whoop_run.raised = "none"
    /\ AllNone(whoop_run.record)

\* C8: a 401 answer ends in a returned record too.
C8_Got401ReturnsRecord ==
    /\ whoop_run.pc = "done"
    /\ whoop_run.got_401
    /\ ~whoop_run.no_token
    /\ whoop_run.raised = "none"

\* C8, the part of the claim that holds: a sub-endpoint failure that is
\* neither a missing token nor a 401 does not make get_all raise.
C8_OtherFailureDoesNotRaise ==
    (whoop_run.pc = "done" /\ ~whoop_run.no_token /\ ~whoop_run.got_401)
        => whoop_run.raised = "none"

C10_BothFailEmptyResult ==
    (agg.ran /\ agg.whoop_raised # "none"
             /\ (agg.oura_raised # "none" \/ agg.oura_answered = 0))
        => /\ agg.returned
           /\ IsEmptyDict(agg.whoop)
           /\ IsEmptyDict(agg.oura)
           /\ agg.composite = Absent
           /\ agg.training = Absent
           /\ Len(agg.errors) = 2
           /\ agg.saves = << >>
           /\ whoop_metrics = {} /\ oura_metrics = {} /\ daily_scores = {}

\* C10: the case is reached: both fetches failed, and the result holds one
\* error string and an Oura record of null values.
C10_BothFailOneError ==
    /\ agg.ran
    /\ agg.whoop_raised # "none"
    /\ agg.oura_answered = 0
    /\ agg.returned
    /\ Len(agg.errors) = 1
    /\ ~IsEmptyDict(agg.oura)
    /\ AllNone(agg.oura)

\* C10, the part of the claim that holds: both scores are null and no row
\* is written.
C10_BothFailNoScoresNoRows ==
    (agg.ran /\ agg.whoop_raised # "none" /\ agg.oura_answered = 0)
        => /\ agg.composite = Absent
           /\ agg.training = Absent
           /\ agg.saves = << >>
           /\ whoop_metrics = {} /\ oura_metrics = {} /\ daily_scores = {}

\* The whoop and oura scores the last aggregate worked on.
AggRecovery == Get(agg.whoop, "recovery_score")

AggReadiness == Get(agg.oura, "readiness_score")

\* C11: for all recovery scores a and readiness scores b in 0..100, the
\* composite is (a + b) / 2 rounded to one decimal when both are present, a
\* when only a is present, b when only b is present, and null when neither is.
\* (Composite in tenths.)
C11_CompositeRecovery ==
    agg.ran =>
        agg.composite =
            (IF AggRecovery # Absent /\ AggReadiness # Absent
             THEN Some(RoundTenths(AggRecovery[1] + AggReadiness[1], 2))
             ELSE IF AggRecovery # Absent THEN Some(10 * AggRecovery[1])
             ELSE IF AggReadiness # Absent THEN Some(10 * AggReadiness[1])
             ELSE Absent)

\* C11 witness: both scores present with an odd sum, so the mean has a
\* decimal: 70 and 55 give 62.5.
C11_Witness ==
    /\ agg.ran
    /\ AggRecovery = Some(70)
    /\ AggReadiness = Some(55)
    /\ agg.composite = Some(625)

\* C11, the one-sided and the empty cases are reached.
C11_OnlyReadiness ==
    /\ agg.ran
    /\ AggRecovery = Absent
    /\ AggReadiness = Some(55)
    /\ agg.composite = Some(550)

C11_Neither ==
    /\ agg.ran
    /\ AggRecovery = Absent
    /\ AggReadiness = Absent
    /\ agg.composite = Absent

\* The penalty inputs the last aggregate worked on.
AggStress == Get(agg.oura, "stress_high")

AggTempDev == Get(agg.oura, "temperature_deviation")

AggSpo2 == Get(agg.whoop, "spo2")

\* composite minus the three penalties, in thousandths of a point, as the
\* claim words it: 1.25 per hour of stress up to 10, 5 per degree of
\* deviation (either sign) up to 5, 2 per percent of SpO2 below 95, each only
\* when its metric is present.
PenalizedThousandths ==
    agg.composite[1] * 100
    - (IF AggStress = Absent THEN 0
       ELSE IF AggStress[1] * 125 < 10000 THEN AggStress[1] * 125 ELSE 10000)
    - (IF AggTempDev = Absent THEN 0
       ELSE IF Abs(AggTempDev[1]) * 50 < 5000 THEN Abs(AggTempDev[1]) * 50 ELSE 5000)
    - (IF AggSpo2 = Absent \/ AggSpo2[1] >= 950 THEN 0
       ELSE (950 - AggSpo2[1]) * 200)

C12_Spo2Uncapped ==
    /\ agg.ran
    /\ agg.composite = Some(850)
    /\ AggStress = Absent /\ AggTempDev = Absent /\ AggSpo2 = Some(900)
    /\ agg.training = Some(750)

\* C13: whenever training readiness is defined, the composite is defined,
\* training readiness is at most the composite, and it lies in [0, 100].
C13_TrainingAtMostComposite ==
    (agg.ran /\ agg.training # Absent) =>
        /\ agg.composite # Absent
        /\ agg.training[1] <= agg.composite[1]
        /\ agg.training[1] >= 0
        /\ agg.training[1] <= 10 * MaxScore

\* C13 witness: a negative temperature deviation lowers the score: composite
\* 100, deviation -3.0, nothing else present, training 95.0.
C13_Witness ==
    /\ agg.ran
    /\ agg.composite = Some(1000)
    /\ AggStress = Absent /\ AggSpo2 = Absent /\ AggTempDev = Some(-300)
    /\ agg.training = Some(950)

\* C13, the lower clamp: SpO2 of 40 would take 110 points; training is 0.
C13_ClampedAtZero ==
    /\ agg.ran
    /\ agg.composite # Absent
    /\ AggSpo2 = Some(400)
    /\ agg.training = Some(0)

\* C14: the stress penalty never exceeds 10 and the temperature penalty
\* never exceeds 5, whatever the magnitude of the input: with no SpO2
\* penalty, training readiness is at most 10 below the composite when only
\* stress is present, at most 5 below when only the deviation is present, at
\* most 15 below when both are; 100 hours of stress subtract exactly 10.
C14_PenaltiesCapped ==
    (agg.ran /\ agg.composite # Absent /\ (AggSpo2 = Absent \/ AggSpo2[1] >= 950)) =>
        /\ AggTempDev = Absent => agg.composite[1] - agg.training[1] <= 100
        /\ AggStress = Absent => agg.composite[1] - agg.training[1] <= 50
        /\ agg.composite[1] - agg.training[1] <= 150
        /\ (AggStress = Some(1000) /\ AggTempDev = Absent /\ agg.composite[1] >= 100)
             => agg.composite[1] - agg.training[1] = 100

\* C14 witness: 100 hours of high stress, nothing else present, composite
\* 85.0: training is 75.0.
C14_Witness ==
    /\ agg.ran
    /\ agg.composite = Some(850)
    /\ AggStress = Some(1000) /\ AggTempDev = Absent /\ AggSpo2 = Absent
    /\ agg.training = Some(750)

\* Some field of the record other than the "_" ones is not None.
HasMetric(record) ==
    \E k \in DOMAIN record \ MetadataKeys : record[k] # Absent

\* C15: aggregate writes (attempts the write of) a provider's snapshot row
\* only if some non-metadata field of that provider's record is non-null, and
\* a provider whose record is empty or all-null has no row; with only the
\* Whoop recovery score 85 present, composite and training are 85.0 and no
\* Oura write is made.
C15_SnapshotOnlyWithData ==
    agg.ran =>
        /\ \A i \in 1..Len(agg.saves) :
             /\ agg.saves[i] = "whoop_metrics" => HasMetric(agg.whoop)
             /\ agg.saves[i] = "oura_metrics" => HasMetric(agg.oura)
        /\ ~HasMetric(agg.whoop) => whoop_metrics = {}
        /\ ~HasMetric(agg.oura) => oura_metrics = {}
        /\ (AggRecovery = Some(85) /\ AggSpo2 = Absent /\ ~HasMetric(agg.oura))
             => /\ agg.composite = Some(850)
                /\ agg.training = Some(850)
                /\ \A i \in 1..Len(agg.saves) : agg.saves[i] # "oura_metrics"

\* C15 witness: the Whoop record is all null and is skipped, the Oura record
\* holds a readiness score and its write is the one attempted.
C15_Witness ==
    /\ agg.ran
    /\ ~IsEmptyDict(agg.whoop)
    /\ ~HasMetric(agg.whoop)
    /\ HasMetric(agg.oura)
    /\ agg.saves = <<"oura_metrics">>
    /\ whoop_metrics = {}

\* C15, the claim's example: only the Whoop recovery score 85 is present.
C15_OnlyWhoop ==
    /\ agg.ran
    /\ AggRecovery = Some(85)
    /\ ~HasMetric(agg.oura)
    /\ agg.composite = Some(850)
    /\ agg.training = Some(850)
    /\ agg.saves = <<"whoop_metrics">>
    /\ oura_metrics = {}

\* The last operation was one of the three writes.
IsSave(r) == r.op \in {"save_whoop", "save_oura", "save_daily_scores"}

\* The table the last write was for.
SavedTable ==
    IF ret.provider = "whoop_metrics" THEN whoop_metrics
    ELSE IF ret.provider = "oura_metrics" THEN oura_metrics
    ELSE daily_scores

\* C16 as claimed: after a write, the table holds exactly one row for the
\* written date, and every field of that row is the one just written (a
\* null written is a null stored).
C16_LastWriteWins ==
    IsSave(ret) =>
        /\ Cardinality({r \in SavedTable : r.date = ret.resp.date}) = 1
        /\ \A r \in SavedTable :
             r.date = ret.resp.date => \A c \in DOMAIN ret.resp : r[c] = ret.resp[c]

\* C16: the case is reached: a write of scores 85.0 / 85.0 has been made and
\* rejected, and the score table holds no row.
C16_WriteRejected ==
    /\ ret.op = "save_daily_scores"
    /\ ret.resp.composite_recovery = Some(850)
    /\ ret.resp.training_readiness = Some(850)
    /\ ret.result = SaveRaises
    /\ daily_scores = {}

\* C16, the part of the claim that holds: no table ever holds two rows for
\* one date.
C16_AtMostOneRowPerDate ==
    \A tbl \in {whoop_metrics, oura_metrics, daily_scores} :
        \A r1 \in tbl, r2 \in tbl : r1.date = r2.date => r1 = r2

\* C17 as claimed: snapshot and score rows are keyed by user as well as
\* date: every write names the user it is for, and leaves a row under that
\* user and date.
C17_WritesKeyedByUser ==
    IsSave(ret) =>
        /\ "chat_id" \in DOMAIN ret.resp
        /\ \E r \in SavedTable : r.date = ret.resp.date /\ "chat_id" \in DOMAIN r

\* C17: the case is reached: a snapshot write made with no user among its
\* columns, and a user's aggregation run that ended in TypeError.
C17_WriteWithoutUser ==
    /\ ret.op = "save_whoop"
    /\ "chat_id" \notin DOMAIN ret.resp
    /\ ret.resp.recovery_score = Some(85)
    /\ whoop_metrics = {}

C17_UserRunFails ==
    /\ ret.op = "cmd_health"
    /\ ret.chat_id = 2
    /\ ret.result = "TypeError"

\* The table of the given name.
TableNamed(name) ==
    IF name = "whoop_metrics" THEN whoop_metrics
    ELSE IF name = "oura_metrics" THEN oura_metrics
    ELSE daily_scores

\* A write the last aggregate attempted left no row for today: storage
\* failed it.
WriteFailed ==
    \E i \in 1..Len(agg.saves) :
        \A r \in TableNamed(agg.saves[i]) : r.date # Today

\* C18: a storage failure during one of aggregate's writes is not recovered:
\* aggregate ends with the storage exception, returns no result, and attempts
\* no write after the one that failed.
C18_StorageFailurePropagates ==
    (agg.ran /\ WriteFailed) =>
        /\ ~agg.returned
        /\ agg.raised = SaveRaises
        /\ \A i \in 1..(Len(agg.saves) - 1) :
             \E r \in TableNamed(agg.saves[i]) : r.date = Today

\* C18 witness: both records hold data, the Whoop write was rejected, and
\* aggregate ended with the exception before the Oura write.
C18_Witness ==
    /\ agg.ran
    /\ HasMetric(agg.whoop)
    /\ HasMetric(agg.oura)
    /\ agg.saves = <<"whoop_metrics">>
    /\ agg.raised = SaveRaises
    /\ ~agg.returned
    /\ whoop_metrics = {}

\* C19: a callback request that carries an `error` parameter leaves
\* oauth_states and oauth_tokens unchanged, whatever state it carries; a
\* pending state it carried is still pending afterwards.
C19_ErrorLeavesStores ==
    [][(IsCallback(ret') /\ ret'.result = "oauth_error")
        => /\ oauth_states' = oauth_states
           /\ oauth_tokens' = oauth_tokens
           /\ ~ret'.exchanged
           /\ ret'.state \in DOMAIN oauth_states => ret'.state \in DOMAIN oauth_states']_vars

\* C19 witness: an error callback carried a valid pending whoop state of
\* user 1, and that state is still pending, never consumed.
C19_Witness ==
    /\ ret.op = "whoop_callback"
    /\ ret.result = "oauth_error"
    /\ ret.state \in DOMAIN oauth_states
    /\ oauth_states[ret.state] = [provider |-> "whoop", chat_id |-> 1]
    /\ ret.state \notin consumed

\* C20 as claimed: the history read for a user returns at most `days` rows,
\* all belonging to that user, in descending date order, none dated today.
C20_HistoryOfUser ==
    ret.op = "get_history" =>
        /\ Len(ret.resp) <= ret.state
        /\ \A i \in 1..Len(ret.resp) : ret.resp[i].d.chat_id = ret.chat_id
        /\ \A i \in 1..Len(ret.resp), j \in 1..Len(ret.resp) :
             i < j => ret.resp[i].d.date >= ret.resp[j].d.date
        /\ \A i \in 1..Len(ret.resp) : ret.resp[i].d.date # Today

\* C20: the case is reached: the history read while serving user 1 holds a
\* row of user 2.
C20_OtherUsersRow ==
    /\ ret.op = "get_history"
    /\ ret.chat_id = 1
    /\ \E i \in 1..Len(ret.resp) : ret.resp[i].d.chat_id = 2

\* C20, the part of the claim that holds: at most `days` rows, in
\* descending date order, none dated today.
C20_AtMostDaysBeforeToday ==
    ret.op = "get_history" =>
        /\ Len(ret.resp) <= ret.state
        /\ \A i \in 1..Len(ret.resp), j \in 1..Len(ret.resp) :
             i < j => ret.resp[i].d.date >= ret.resp[j].d.date
        /\ \A i \in 1..Len(ret.resp) : ret.resp[i].d.date < Today

\* C21: the lookup and the deletion of a state are atomic: of two concurrent
\* callbacks carrying the same pending state, at most one obtains the record
\* and proceeds to the code exchange.
C21_AtMostOneObtains ==
    \A r1 \in Requests : \A r2 \in Requests \ {r1} :
        ~(/\ callbacks[r1].row # << >>
          /\ callbacks[r2].row # << >>
          /\ callbacks[r1].state = callbacks[r2].state)

\* Both threads were given the record of the same state and both have sent
\* a code exchange.
C21_BothExchanged ==
    /\ callbacks[1].exchanged /\ callbacks[2].exchanged
    /\ callbacks[1].state = callbacks[2].state
    /\ callbacks[1].row = callbacks[2].row
    /\ callbacks[1].state \in consumed

WindowDays(l) ==
    IF l.client = "whoop" THEN WhoopWindowDays ELSE OuraFallbackDays(l.endpoint)

\* The records a provider holds that lie inside the window of lookup l.
InsideWindow(l) == {a \in l.held : a <= WindowDays(l)}

\* C23: when there is no record for today, a client widens its query back by
\* a fixed number of days only and returns the most recent record inside
\* that window; it never returns a record older than the window.
C23_MostRecentInsideWindow ==
    (lookup.client # "" /\ ~lookup.failed) =>
        lookup.result = IF InsideWindow(lookup) = {} THEN Absent
                        ELSE Some(NewestFirst(InsideWindow(lookup))[1])

\* A Whoop lookup returned a record dated before yesterday.
C23_OlderThanWindow ==
    /\ lookup.client = "whoop"
    /\ lookup.result # Absent
    /\ lookup.result[1].age > WhoopWindowDays
    /\ InsideWindow(lookup) = {}

\* The Oura lookups keep to their window: today only, or the last two days
\* for activity.
C23_OuraInsideWindow ==
    (lookup.client = "oura" /\ ~lookup.failed) =>
        lookup.result = IF InsideWindow(lookup) = {} THEN Absent
                        ELSE <<NewestFirst(InsideWindow(lookup))[1]>>

\* The statements of aggregate that score or write.
ScoringAndWrites == {"score", "save_whoop", "save_oura", "save_daily_scores"}

\* C24: within one aggregation run, the scoring and every write start only
\* after both fetches have completed or failed, and the scores the run holds
\* are the ones computed from the final records.
C24_ScoringAfterBothFetches ==
    /\ \A i \in 1..Len(agg_run.steps) :
          agg_run.steps[i] \in ScoringAndWrites =>
              /\ \E j \in 1..(i - 1) : agg_run.steps[j] = "fetch_whoop"
              /\ \E k \in 1..(i - 1) : agg_run.steps[k] = "fetch_oura"
    /\ (\E i \in 1..Len(agg_run.steps) : agg_run.steps[i] = "score") =>
          /\ agg_run.composite = CompositeRecovery(agg_run.whoop, agg_run.oura)
          /\ agg_run.training = TrainingReadiness(agg_run.whoop, agg_run.oura, agg_run.composite)

\* A run that fetched a record from each provider, scored them and went on
\* to a write.
C24_Witness ==
    /\ agg_run.steps = <<"fetch_whoop", "fetch_oura", "score", "save_whoop">>
    /\ agg_run.whoop # EmptyDict /\ agg_run.oura # EmptyDict
    /\ agg_run.composite # Absent /\ agg_run.training # Absent

\* The chat_ids a job has taken through its loop body, as a set.
Processed == {job.processed[i] : i \in 1..Len(job.processed)}

\* C25: a scheduled broadcast job processes every registered user exactly
\* once and terminates; a failure for one user is caught and does not stop
\* the job.
C25_JobProcessesEveryUserOnce ==
    /\ [](/\ job.pc # "raised"
          /\ Cardinality(Processed) = Len(job.processed)
          /\ Processed \subseteq job.registered
          /\ job.sent \cup job.failed = Processed
          /\ job.pc = "done" => Processed = job.registered)
    /\ (job.pc = "loop" ~> job.pc = "done")

\* A job that failed for its first user and sent to its second.
C25_Witness ==
    /\ job.pc = "done"
    /\ job.processed = <<1, 2>>
    /\ job.failed = {1} /\ job.sent = {2}

\* C26: get_auth_url for an unknown provider fails and leaves the table
\* oauth_states unchanged.
C26_UnknownProviderStoresNothing ==
    [][(ret'.op = "get_auth_url" /\ ret'.provider \notin Providers) =>
          /\ ret'.result = "ValueError"
          /\ oauth_states' = oauth_states]_vars

\* get_auth_url raised ValueError for an unknown provider and the state it
\* drew is stored, bound to that provider.
C26_StateOfUnknownProvider ==
    /\ ret.op = "get_auth_url" /\ ret.result = "ValueError"
    /\ ret.state \in DOMAIN oauth_states
    /\ oauth_states[ret.state].provider \notin Providers
    /\ oauth_states[ret.state].chat_id = ret.chat_id

\* C27: get_valid_token never returns a stored access token that has 60
\* seconds or less left: a token it returns either was stored with more than
\* 60 seconds left or was obtained by a refresh during the call; when the
\* refresh fails the result is None.
C27_NoStaleToken ==
    [][ret'.op = "get_valid_token" =>
          LET key == <<ret'.chat_id, ret'.provider>> IN
          /\ ret'.result # None =>
                \/ /\ ret'.refresh = "not_called"
                   /\ key \in DOMAIN oauth_tokens
                   /\ ret'.result = oauth_tokens[key].access_token
                   /\ oauth_tokens[key].expires_at - now > REFRESH_MARGIN
                \/ /\ ret'.refresh = "ok"
                   /\ ret'.resp.status = "ok" /\ ret'.resp.has_access_token
                   /\ oauth_tokens[key].expires_at - now <= REFRESH_MARGIN
                   /\ ret'.result = oauth_tokens'[key].access_token
                   /\ ret'.result # oauth_tokens[key].access_token
          /\ ret'.refresh \in {"failed", "no_refresh_token"} => ret'.result = None]_vars

\* A call that found the stored token within 60 seconds of expiry returned
\* the access token of the refresh it made.
C27_Witness ==
    /\ ret.op = "get_valid_token"
    /\ ret.refresh = "ok" /\ ret.wrote
    /\ ret.resp.has_refresh_token /\ ret.resp.has_expires_in
    /\ ret.result = oauth_tokens[RetKey].access_token
    /\ now > StartTime

\* The columns of a snapshot row that are not normalized metrics.
NonMetricColumns == {"date", "raw_json"}

\* Whether a snapshot row carries a metric: some normalized column is
\* neither NULL nor the JSON text null.
RowHasMetric(row) ==
    \E c \in DOMAIN row \ NonMetricColumns : row[c] # Absent /\ row[c] # JsonNull

\* The last step was a snapshot write that aggregate made (did not skip).
SnapshotWriteMade ==
    /\ ret.op \in {"aggregate_save_whoop", "aggregate_save_oura"}
    /\ ret.result # "skipped"

StepRank(step) ==
    IF step = "fetch_whoop" THEN 1
    ELSE IF step = "fetch_oura" THEN 2
    ELSE IF step = "score" THEN 3
    ELSE IF step = "save_whoop" THEN 4
    ELSE IF step = "save_oura" THEN 5
    ELSE 6

\* The table a write step writes.
StepTable(step) ==
    IF step = "save_whoop" THEN whoop_metrics
    ELSE IF step = "save_oura" THEN oura_metrics
    ELSE daily_scores

C30_PendingUntilFirstLookup ==
    [][/\ \A s \in DOMAIN oauth_states :
            \/ s \in DOMAIN oauth_states' /\ oauth_states'[s] = oauth_states[s]
            \/ IsCallback(ret') /\ ret'.state = s /\ ret'.result # "oauth_error"
       /\ (/\ IsCallback(ret')
           /\ ret'.result # "oauth_error"
           /\ ret'.state \in DOMAIN oauth_states
           /\ oauth_states[ret'.state].provider = ret'.provider)
          => /\ ret'.exchanged
             /\ ret'.chat_id = oauth_states[ret'.state].chat_id
             /\ ret'.resp.status = "ok" /\ ret'.resp.has_access_token
                  => /\ ret'.result = "connected"
                     /\ <<ret'.chat_id, ret'.provider>> \in DOMAIN oauth_tokens'
                     /\ oauth_tokens'[<<ret'.chat_id, ret'.provider>>].access_token
                          = NewAccessToken(oauth_tokens, <<ret'.chat_id, ret'.provider>>)]_vars

\* The older of two states issued to one user for one provider completed an
\* authorization after the newer one had been issued and looked up and after
\* the clock had advanced; it replaced the access token of the user's row.
C30_Witness ==
    /\ IsCallback(ret) /\ ret.result = "connected"
    /\ ret.state = 1
    /\ DOMAIN issued = {1, 2}
    /\ issued[1] = issued[2]
    /\ consumed = {1, 2}
    /\ now > StartTime
    /\ oauth_tokens[RetKey].access_token = "a2"

\* Two states of one user and one provider are pending together after the
\* clock has advanced.
C30_SeveralPending ==
    /\ DOMAIN oauth_states = {1, 2}
    /\ oauth_states[1] = oauth_states[2]
    /\ now > StartTime

====
